---- MODULE Spec2Model ----
(***************************************************************************)
(* Draft Note (blinkpad): the content-synchronization core.                *)
(*                                                                         *)
(* Several views (browser tabs) each hold one editable surface (#note), a  *)
(* note synchronizer (apply / queue / commit / clear), a debounced persist *)
(* timer and a title scheduler.  All views share one asynchronous store    *)
(* (the records and the metadata index) and one BroadcastChannel.          *)
(*                                                                         *)
(* Markup is modelled by its parse tree: a sequence of nodes, each node a  *)
(* record [tag, text, kids].  A text node has tag "#text" and carries a    *)
(* sequence of characters; an element has a tag name and child nodes.      *)
(***************************************************************************)
EXTENDS Integers, Sequences, FiniteSets, TLC

(***************************************************************************)
(* Bounds of the model.                                                    *)
(***************************************************************************)
\* User-level events (input events, commit and clear calls, page unloads) in
\* one run of a single view.
MaxOps == 3
\* User-level events (input events, commit and clear calls) in one run of two
\* views.
MaxDuoOps == 1
\* Runs of the normalizer over one content tree.
MaxRuns == 2
\* Top-level nodes of a content tree handed to the normalizer.
MaxNodes == 2
\* User-level events in one run of a single view whose storage calls may
\* fail.
MaxFaultyOps == 2
\* Placement operations and window events in one run.
MaxPlaceOps == 3
\* Input events in a run of the placement operations.
MaxPlaceInputs == 1
MaxStoredOps == 2
MaxBlocks == 2
MaxTitleOps == 2
MaxIndexOps == 1
MaxQueueOps == 2
MaxPiPEvents == 7
\* The calls of renderSavedNotes a run explores.
MaxRenders == 2

(***************************************************************************)
(* Program constants.                                                      *)
(***************************************************************************)
NOTE_KEY_PREFIX == "dnv1_"
\* A storage key is the pair <<prefix, scope>>, i.e. the string prefix + scope.
DEFAULT_STORAGE_KEY == <<NOTE_KEY_PREFIX, "root">>
CHANNEL_NAME == "note-sync"
NOTE_INDEX_STORAGE_KEY == "dnv1-index"
NON_TEXT_CONTENT_SELECTOR ==
    {"img", "svg", "canvas", "video", "audio", "object", "embed", "iframe",
     "picture", "figure", "hr"}

(***************************************************************************)
(* Optional values (null / undefined of the code).                         *)
(***************************************************************************)
None == [some |-> FALSE]
Some(x) == [some |-> TRUE, val |-> x]

\* Call by value: F applied to the value of x, computed once, the way
\* JavaScript evaluates an argument before the call.
Call(F(_), x) == CHOOSE r \in {F(y) : y \in {x}} : TRUE

(***************************************************************************)
(* Markup trees.                                                           *)
(***************************************************************************)
Text(chars) == [tag |-> "#text", text |-> chars, kids |-> <<>>]
Elem(tagName, children) == [tag |-> tagName, text |-> <<>>, kids |-> children]

ZWSP == "zw"
Whitespace == {" ", "\n", "\r"}

\* The canonical empty block, "<div><br></div>".
EmptyBlock == <<Elem("div", <<Elem("br", <<>>)>>)>>

RECURSIVE TextContent(_)
\* Node.textContent of a list of sibling nodes: the text of all descendants.
TextContent(nodeList) ==
    Call(LAMBDA nodes :
        IF nodes = <<>> THEN <<>>
        ELSE (IF nodes[1].tag = "#text" THEN nodes[1].text
              ELSE TextContent(nodes[1].kids))
                 \o TextContent(Tail(nodes)),
        nodeList)

RECURSIVE StripZeroWidth(_)
\* s.replace(/\u200b/gi, "")
StripZeroWidth(str) ==
    Call(LAMBDA s :
        IF s = <<>> THEN <<>>
        ELSE IF Head(s) = ZWSP THEN StripZeroWidth(Tail(s))
             ELSE <<Head(s)>> \o StripZeroWidth(Tail(s)),
        str)

RECURSIVE TrimStart(_)
TrimStart(str) ==
    Call(LAMBDA s :
        IF s = <<>> THEN <<>>
        ELSE IF Head(s) \in Whitespace THEN TrimStart(Tail(s)) ELSE s,
        str)

RECURSIVE TrimEnd(_)
TrimEnd(str) ==
    Call(LAMBDA s :
        IF s = <<>> THEN <<>>
        ELSE IF s[Len(s)] \in Whitespace
             THEN TrimEnd(SubSeq(s, 1, Len(s) - 1))
             ELSE s,
        str)

\* String.prototype.trim
Trim(s) == TrimEnd(TrimStart(s))

RECURSIVE QuerySelector(_, _)
\* element.querySelector(selector) !== null, over the descendants `nodes`.
QuerySelector(nodeList, tags) ==
    Call(LAMBDA nodes :
        IF nodes = <<>> THEN FALSE
        ELSE \/ Head(nodes).tag \in tags
             \/ QuerySelector(Head(nodes).kids, tags)
             \/ QuerySelector(Tail(nodes), tags),
        nodeList)

RECURSIVE MergeText(_)
\* Serializing a tree to innerHTML and parsing it back joins adjacent text
\* nodes and drops empty ones.
MergeText(nodes) ==
    IF nodes = <<>> THEN <<>>
    ELSE Call(LAMBDA n : Call(LAMBDA rest :
             IF n.tag = "#text"
             THEN IF n.text = <<>> THEN rest
                  ELSE IF rest # <<>> /\ Head(rest).tag = "#text"
                       THEN <<Text(n.text \o Head(rest).text)>> \o Tail(rest)
                       ELSE <<n>> \o rest
             ELSE <<Elem(n.tag, MergeText(n.kids))>> \o rest,
             MergeText(Tail(nodes))), Head(nodes))

\* Tags DOMPurify's html profile removes together with their content.
ForbiddenTags == {"script", "style", "iframe", "object", "embed"}

RECURSIVE DropForbidden(_)
DropForbidden(nodeList) ==
    Call(LAMBDA nodes :
        IF nodes = <<>> THEN <<>>
        ELSE IF nodes[1].tag \in ForbiddenTags
             THEN DropForbidden(Tail(nodes))
             ELSE IF nodes[1].tag = "#text"
                  THEN <<nodes[1]>> \o DropForbidden(Tail(nodes))
                  ELSE <<Elem(nodes[1].tag, DropForbidden(nodes[1].kids))>>
                           \o DropForbidden(Tail(nodes)),
        nodeList)

\* A sanitizer that re-serializes the markup and removes nothing.
sanitizeHtmlKeepingAll(markup) == MergeText(markup)

\* sanitizeHtml: DOMPurify.sanitize(markup, html profile), then the markup
\* is re-serialized.
sanitizeHtml(markup) == MergeText(DropForbidden(markup))

\* Trimmed text of a node list with zero-width spaces removed.
MeaningfulText(nodes) == Trim(StripZeroWidth(TextContent(nodes)))

\* The surface element: its children and its data-empty attribute.
Element(html, isEmpty) == [html |-> html, dataEmpty |-> isEmpty]

hasElementChild(html) ==
    \E i \in 1..Len(html) : \E child \in {html[i]} :
        /\ child.tag # "#text"
        /\ \/ child.tag \in NON_TEXT_CONTENT_SELECTOR
           \/ MeaningfulText(child.kids) # <<>>

\* normalizeNoteElement without `element.removeAttribute("data-empty")`.
normalizeNoteElementKeepingMarker(el) ==
    Call(LAMBDA element : Call(LAMBDA trimmedText :
        LET hasNonTextContent ==
                /\ trimmedText = <<>>
                /\ QuerySelector(element.html, NON_TEXT_CONTENT_SELECTOR)
        IN  IF trimmedText = <<>> /\ ~hasNonTextContent
            THEN Element(EmptyBlock, TRUE)
            ELSE IF ~hasElementChild(element.html)
                 THEN Element(<<Elem("div", element.html)>>, element.dataEmpty)
                 ELSE Element(element.html, element.dataEmpty),
        MeaningfulText(element.html)), el)

\* normalizeNoteElement: the element after the in-place normalization; the
\* returned markup is the html field of the result.
normalizeNoteElement(el) ==
    Call(LAMBDA element : Call(LAMBDA trimmedText :
        LET hasNonTextContent ==
                /\ trimmedText = <<>>
                /\ QuerySelector(element.html, NON_TEXT_CONTENT_SELECTOR)
        IN  IF trimmedText = <<>> /\ ~hasNonTextContent
            THEN Element(EmptyBlock, TRUE)
            ELSE IF ~hasElementChild(element.html)
                 THEN Element(<<Elem("div", element.html)>>, FALSE)
                 ELSE Element(element.html, FALSE),
        MeaningfulText(element.html)), el)

\* normalizeMarkup: normalize a markup string in a scratch container.
normalizeMarkup(markup) == normalizeNoteElement(Element(markup, FALSE)).html

RECURSIVE FirstLine(_)
\* text.split(/\r?\n/)[0]
FirstLine(str) ==
    Call(LAMBDA s :
        IF s = <<>> THEN <<>>
        ELSE IF Head(s) = "\n" THEN <<>>
        ELSE IF Head(s) = "\r" /\ Len(s) > 1 /\ s[2] = "\n" THEN <<>>
        ELSE <<Head(s)>> \o FirstLine(Tail(s)),
        str)

NoteTitle == <<"N", "o", "t", "e">>

\* deriveTitleFromMarkup
deriveTitleFromMarkup(markup) ==
    IF markup = <<>> THEN NoteTitle
    ELSE Call(LAMBDA firstLine :
                  IF firstLine = <<>> THEN NoteTitle ELSE firstLine,
              Trim(FirstLine(TextContent(markup))))

RECURSIVE InnerText(_)
\* HTMLElement.innerText of a node list: a block element and a <br> end the
\* line they are on.
InnerText(nodes) ==
    IF nodes = <<>> THEN <<>>
    ELSE Call(LAMBDA n : Call(LAMBDA rest :
             IF n.tag = "#text" THEN n.text \o rest
             ELSE IF n.tag = "br" THEN <<"\n">> \o rest
             ELSE IF n.tag \in {"div", "p"}
                  THEN LET body == IF n.kids = <<Elem("br", <<>>)>>
                                   THEN <<>> ELSE InnerText(n.kids)
                       IN  IF rest = <<>> THEN body
                           ELSE body \o <<"\n">> \o rest
             ELSE InnerText(n.kids) \o rest,
             InnerText(Tail(nodes))), Head(nodes))

\* updateDocumentTitles: the title computed from the surface.
TitleOfElement(element) ==
    Call(LAMBDA firstLine : IF firstLine = <<>> THEN NoteTitle ELSE firstLine,
         Trim(FirstLine(InnerText(element.html))))

\* getStorageKey: the key of the note named by the URL's scope parameter.
getStorageKey(scope) ==
    IF scope # "" THEN <<NOTE_KEY_PREFIX, scope>> ELSE DEFAULT_STORAGE_KEY

\* getSlugFromStorageKey
getSlugFromStorageKey(storageKey) ==
    IF storageKey[1] = NOTE_KEY_PREFIX
    THEN IF storageKey[2] # "" THEN storageKey[2] ELSE "root"
    ELSE "root"

\* compressToUTF16 / decompressFromUTF16 of lz-string.
compressToUTF16(text) == [lz |-> text]
\* A record written before compression was introduced holds the markup
\* itself; lz-string decodes such a string to null or to some other string.
LegacyRecord(text, decoded) == [raw |-> text, decoded |-> decoded]
decompressFromUTF16(stored) ==
    IF "lz" \in DOMAIN stored THEN Some(stored.lz) ELSE stored.decoded

(***************************************************************************)
(* The views, the notes they are opened on, and the values of a run.       *)
(***************************************************************************)
Views == {"v1", "v2"}
\* The value of the URL's "s" parameter: "" opens the default note.
Scopes == {"", "work"}
StorageKeys == {getStorageKey(sc) : sc \in Scopes}
Slugs == {getSlugFromStorageKey(k) : k \in StorageKeys}

Hi == <<"h", "i">>
Yo == <<"y", "o">>
Old == <<"o", "l", "d">>

\* What the surface can hold after a user edit, before the input handler
\* normalizes it: bare text, a text block, a lone zero-width space.
InputDoms ==
    { <<Text(Hi)>>,
      <<Elem("div", <<Text(Yo)>>)>>,
      <<Text(<<ZWSP>>)>> }

\* Values handed to commit: the empty string, and bare text followed by a
\* script element.
CommitValues ==
    { <<>>,
      <<Text(Hi), Elem("script", <<Text(<<"x">>)>>)>> }

\* The record a previous session may have left in the store.
SavedMarkup == <<Elem("div", <<Text(Old)>>)>>

\* document.title before the first title update.
InitialTitle == <<"D", "r", "a", "f", "t">>

(***************************************************************************)
(* The node graph of the page of view v1 and of the detached windows it    *)
(* opens, and the view placement (createNotePlacement, showPlaceholder,    *)
(* restoreNote, moveNoteToDocument).  A placement state p is the record    *)
(* [children, ownerDocument, bodyAttached, context].                       *)
(***************************************************************************)
\* The surface (#note) and the placeholder (#note-placeholder).
NoteNode == "note"
PlaceholderNode == "note-placeholder"
\* The documents of the detached windows; the main document is "main".
DetachedDocs == {"pip1", "pip2"}
Documents == {"main"} \union DetachedDocs
\* Nodes that have children: the main document's body, an element of the
\* main document inside its body, and the body of each detached document.
Containers == {"body", "app"} \union DetachedDocs
Null == "null"

Range(seq) == {seq[i] : i \in 1..Len(seq)}

\* seq without node
Without(seq, node) == SelectSeq(seq, LAMBDA n : n # node)

\* The position of node in seq (node is in seq).
IndexOf(seq, node) == CHOOSE i \in 1..Len(seq) : seq[i] = node

\* node.parentNode
ParentOf(p, node) ==
    IF \E c \in Containers : node \in Range(p.children[c])
    THEN CHOOSE c \in Containers : node \in Range(p.children[c])
    ELSE Null

\* node.nextSibling
NextSibling(p, node) ==
    IF ParentOf(p, node) = Null THEN Null
    ELSE LET seq == p.children[ParentOf(p, node)]
             i == IndexOf(seq, node)
         IN  IF i < Len(seq) THEN seq[i + 1] ELSE Null

\* The container is in the tree of its document.
ContainerConnected(p, c) ==
    \/ c = "body"
    \/ c = "app" /\ "app" \in Range(p.children["body"])
    \/ c \in DetachedDocs /\ p.bodyAttached[c]

\* node.isConnected
IsConnected(p, node) ==
    ParentOf(p, node) # Null /\ ContainerConnected(p, ParentOf(p, node))

\* The node is taken out of its parent's children.
Detach(p, node) ==
    [p EXCEPT !.children = [c \in Containers |-> Without(p.children[c], node)]]

\* parent.insertBefore(node, child): child is null (append) or a child of
\* parent other than node.
InsertBefore(p, parent, node, child) ==
    LET q == Detach(p, node)
        seq == q.children[parent]
    IN  IF child = Null
        THEN [q EXCEPT !.children[parent] = Append(seq, node)]
        ELSE LET i == IndexOf(seq, child)
             IN  [q EXCEPT !.children[parent] =
                     SubSeq(seq, 1, i - 1) \o <<node>> \o SubSeq(seq, i, Len(seq))]

\* old.replaceWith(new): nothing happens when old has no parent.
ReplaceWith(p, old, new) ==
    IF ParentOf(p, old) = Null THEN p
    ELSE LET parent == ParentOf(p, old)
             q == InsertBefore(p, parent, new, old)
         IN  Detach(q, old)

\* document.adoptNode(element) for the surface: it leaves its parent and is
\* owned by doc.
AdoptNode(p, doc) == [Detach(p, NoteNode) EXCEPT !.ownerDocument = doc]

\* parent.insertBefore(node, child) throws NotFoundError when child is not a
\* child of parent: the caller stops there.
CanInsertBefore(p, parent, child) ==
    child = Null \/ child \in Range(p.children[parent])

\* createNotePlacement(element)
createNotePlacement(p) ==
    [originalParent |-> ParentOf(p, NoteNode), anchor |-> NextSibling(p, NoteNode)]

\* showPlaceholder that does not test whether the placeholder is shown.
showPlaceholderAgain(p) ==
    IF ParentOf(p, NoteNode) # Null
    THEN ReplaceWith([p EXCEPT !.context.anchor = NextSibling(p, NoteNode)],
                     NoteNode, PlaceholderNode)
    ELSE IF p.context.originalParent # Null
    THEN InsertBefore(p, p.context.originalParent, PlaceholderNode, Null)
    ELSE InsertBefore(p, "body", PlaceholderNode, Null)

\* showPlaceholder(context)
showPlaceholder(p) ==
    IF IsConnected(p, PlaceholderNode) THEN p
    ELSE IF IsConnected(p, NoteNode) /\ p.ownerDocument = "main"
    THEN ReplaceWith([p EXCEPT !.context.anchor = NextSibling(p, NoteNode)],
                     NoteNode, PlaceholderNode)
    ELSE IF p.context.originalParent # Null
    THEN IF CanInsertBefore(p, p.context.originalParent, p.context.anchor)
         THEN InsertBefore(p, p.context.originalParent, PlaceholderNode,
                           p.context.anchor)
         ELSE p
    ELSE InsertBefore(p, "body", PlaceholderNode, Null)

\* restoreNote that appends the surface to its original parent instead of
\* inserting it before the recorded anchor.
restoreNoteAppending(p) ==
    LET p1 == IF p.ownerDocument # "main" THEN AdoptNode(p, "main") ELSE p
        q == IF IsConnected(p1, PlaceholderNode)
             THEN ReplaceWith(p1, PlaceholderNode, NoteNode)
             ELSE InsertBefore(p1, p1.context.originalParent, NoteNode, Null)
    IN  [q EXCEPT !.context.anchor = NextSibling(q, NoteNode)]

\* restoreNote that appends the surface to the body of the main document.
restoreNoteToBody(p) ==
    LET q == InsertBefore(AdoptNode(p, "main"), "body", NoteNode, Null)
    IN  [q EXCEPT !.context.anchor = NextSibling(q, NoteNode)]

\* restoreNote(context)
restoreNote(p) ==
    LET p1 == IF p.ownerDocument # "main" THEN AdoptNode(p, "main") ELSE p
        placed ==
            IF IsConnected(p1, PlaceholderNode)
            THEN Some(ReplaceWith(p1, PlaceholderNode, NoteNode))
            ELSE IF p1.context.originalParent # Null
            THEN IF CanInsertBefore(p1, p1.context.originalParent,
                                    p1.context.anchor)
                 THEN Some(InsertBefore(p1, p1.context.originalParent, NoteNode,
                                        p1.context.anchor))
                 ELSE None
            ELSE Some(InsertBefore(p1, "body", NoteNode, Null))
    IN  IF placed.some
        THEN [placed.val EXCEPT !.context.anchor = NextSibling(placed.val, NoteNode)]
        ELSE p1

\* moveNoteToDocument that appends the surface to a body it created and
\* did not attach to the target document.
moveNoteIntoLooseBody(p, targetDocument) ==
    LET p1 == IF p.ownerDocument = targetDocument THEN p
              ELSE AdoptNode(p, targetDocument)
    IN  InsertBefore(p1, targetDocument, NoteNode, Null)

\* moveNoteToDocument that leaves the surface where it is and appends a copy
\* of it (targetDocument.importNode) to the target's body.
moveNoteByCopy(p, targetDocument) ==
    [p EXCEPT !.bodyAttached[targetDocument] = TRUE,
              !.children[targetDocument] = Append(Without(@, NoteNode), NoteNode)]

\* moveNoteToDocument(context, targetDocument)
moveNoteToDocument(p, targetDocument) ==
    LET p1 == IF p.ownerDocument = targetDocument THEN p
              ELSE AdoptNode(p, targetDocument)
        p2 == [p1 EXCEPT !.bodyAttached[targetDocument] = TRUE]
    IN  InsertBefore(p2, targetDocument, NoteNode, Null)

VARIABLES
    scope,              \* view -> the scope parameter of its URL
    alive,              \* view -> the page is loaded
    element,            \* view -> the surface: [html, dataEmpty]
    lastKnownDomValue,  \* view -> markup
    lastPersistedValue, \* view -> None (null) or Some(markup)
    persistTimer,       \* view -> None or Some(value): the debounce's pending call
    titleTimer,         \* view -> the title scheduler's 250 ms timeout is pending
    idleHandle,         \* view -> the title scheduler's idle callback is pending
    docTitle,           \* view -> document.title
    tasks,              \* view -> storage calls issued and not yet completed
    inbox,              \* view -> channel messages delivered and not yet handled
    store,              \* storage key -> None or Some(stored string)
    index,              \* slug -> None or Some(metadata): the metadata index
    budget,             \* the number of user-level events the run explores
    nops,               \* user-level events so far (unloads included)
    nposted,            \* messages posted on the channel so far
    nunloads,           \* page unloads so far
    lastOp,             \* view -> the last handler run in the view
    lastInput,          \* view -> Some(markup that queue took from the last
                        \*         input event), until apply, commit or clear
                        \*         supersedes it
    children,           \* container -> its child nodes, in document order
    ownerDocument,      \* the surface's ownerDocument
    bodyAttached,       \* detached document -> it has a body
    context,            \* the NotePlacement: [originalParent, anchor]
    pipWindow,          \* None, or Some([doc, ready]): the detached window
    awaiting,           \* calls of openPiPWindow suspended at their await
    windows,            \* detached document -> its window: [state, listeners]
    placeOps,           \* the placement operations and window events so far
    renderSequence,     \* the note list: the renders started so far
    storageReadFailed,  \* the note list: the flag collectSlugs sets
    listContainer,      \* the note list: what it shows, and which render wrote it
    renders,            \* render id -> how far that call of renderSavedNotes is
    deletion            \* None, or Some(the call of deleteNote in progress or done)

viewVars == <<element, lastKnownDomValue, lastPersistedValue,
              persistTimer, titleTimer, idleHandle, docTitle>>
vars == <<scope, alive, element, lastKnownDomValue,
          lastPersistedValue, persistTimer, titleTimer, idleHandle, docTitle,
          tasks, inbox, store, index, budget, nops, nposted, nunloads, lastOp,
          lastInput, children, ownerDocument, bodyAttached, context, pipWindow,
          awaiting, windows, placeOps, renderSequence, storageReadFailed,
          listContainer, renders, deletion>>
\* The variables of the saved-notes sheet.
sheetVars == <<renderSequence, storageReadFailed, listContainer, renders,
               deletion>>
placeVars == <<children, ownerDocument, bodyAttached, context, pipWindow,
              awaiting, windows, placeOps>>

\* Date.now(): the clock advances with every user-level event.
now == nops + 1

storageKey(v) == getStorageKey(scope[v])
slug(v) == getSlugFromStorageKey(storageKey(v))

\* The record of a handler run: its name, its argument, its flag (the
\* broadcast option of commit and clear; for a message, whether the surface
\* was the activeElement), the messages it posted, the value it returned,
\* the debounced persist that was pending when it started, whether the
\* note then had both a record and a metadata entry, and whether a title
\* update was then scheduled.
Op(name, arg, flag, posted, ret, pending, had, titled) ==
    [op |-> name, arg |-> arg, flag |-> flag, posted |-> posted, ret |-> ret,
     pending |-> pending, had |-> had, titled |-> titled]

\* The note of view v has a record in the store and an entry in the index.
Persisted(v) == store[storageKey(v)].some /\ index[slug(v)].some

(***************************************************************************)
(* Storage calls.  A view's calls complete in the order they were issued.  *)
(***************************************************************************)
\* The field `last` tells whether the call was issued by the handler that ran
\* last in the view (or continues a call that was).
ReadTask == [k |-> "read", last |-> TRUE]
SetTask(key, value) == [k |-> "set", key |-> key, val |-> value, last |-> TRUE]
RemoveTask(key) == [k |-> "remove", key |-> key, last |-> TRUE]
SaveMetaTask(meta) == [k |-> "saveMeta", meta |-> meta, last |-> TRUE]
DeleteMetaTask(s) == [k |-> "deleteMeta", slug |-> s, last |-> TRUE]
WriteIndexTask(idx, isLast) ==
    [k |-> "writeIndex", index |-> idx, last |-> isLast]

\* The pending calls ts once a later handler has run.
Earlier(ts) == [i \in 1..Len(ts) |-> [ts[i] EXCEPT !.last = FALSE]]

\* writeStoredValue: storage.setItem(storageKey, compressToUTF16(value))
writeStoredValue(key, value) == <<SetTask(key, compressToUTF16(value))>>
\* removeStoredValue: storage.removeItem(storageKey)
removeStoredValue(key) == <<RemoveTask(key)>>
\* saveNoteMetadata / deleteNoteMetadata start by reading the index.
saveNoteMetadata(meta) == <<SaveMetaTask(meta)>>
deleteNoteMetadata(s) == <<DeleteMetaTask(s)>>

\* readStoredValue with `return decompressed ?? ""` in place of the fallback
\* to the stored string.
readStoredValueWithoutFallback(key) ==
    IF ~store[key].some THEN <<>>
    ELSE LET decompressed == decompressFromUTF16(store[key].val)
         IN  IF decompressed.some THEN decompressed.val ELSE <<>>

\* readStoredValue: what a read of `key` resolves to.
readStoredValue(key) ==
    IF ~store[key].some THEN <<>>
    ELSE LET decompressed == decompressFromUTF16(store[key].val)
         IN  IF decompressed.some THEN decompressed.val
             ELSE store[key].val.raw

(***************************************************************************)
(* The note synchronizer of one view (createNoteSynchronizer).  Each       *)
(* operation maps the synchronizer's state s to its state on return; the   *)
(* storage calls issued, the messages posted and the value returned are    *)
(* collected in s.tasks, s.posted and s.ret.                               *)
(***************************************************************************)
SyncState(v) ==
    [element |-> element[v],
     lastKnownDomValue |-> lastKnownDomValue[v],
     lastPersistedValue |-> lastPersistedValue[v],
     persistTimer |-> persistTimer[v],
     titleTimer |-> titleTimer[v],
     idleHandle |-> idleHandle[v],
     docTitle |-> docTitle[v],
     storageKey |-> storageKey(v),
     slug |-> slug(v),
     now |-> now,
     tasks |-> <<>>,
     posted |-> <<>>,
     ret |-> <<>>]

\* run of the title scheduler: updateDocumentTitles(element)
titleRun(state) ==
    Call(LAMBDA s : [s EXCEPT !.docTitle = TitleOfElement(s.element)], state)

\* schedule.cancel of the title scheduler
titleCancel(s) == [s EXCEPT !.titleTimer = FALSE, !.idleHandle = FALSE]

\* A flush that runs the update without cancelling what is scheduled.
titleFlushWithoutCancel(s) == titleRun(s)

\* schedule.flush of the title scheduler
titleFlush(s) == titleRun(titleCancel(s))

\* A schedule that also runs the update at once.
titleScheduleAndRun(s) == titleRun([s EXCEPT !.titleTimer = TRUE])

\* scheduleDocumentTitleUpdate(): (re)start the 250 ms timeout
titleSchedule(s) == [s EXCEPT !.titleTimer = TRUE]

\* enqueue of the title scheduler: (re)request the idle callback
titleEnqueue(s) == [s EXCEPT !.titleTimer = FALSE, !.idleHandle = TRUE]

\* A debounce that keeps the pending call and drops the new one.
persistContentKeepingFirst(s, value) ==
    IF s.persistTimer.some THEN s ELSE [s EXCEPT !.persistTimer = Some(value)]

\* persistContent(value): the debounce wrapper drops the pending call and
\* schedules a new one.
persistContent(s, value) == [s EXCEPT !.persistTimer = Some(value)]

\* A cancel that clears nothing.
persistContentCancelKeeping(s) == s

\* persistContent.cancel()
persistContentCancel(s) == [s EXCEPT !.persistTimer = None]

\* channel.postMessage(message)
postMessage(s, message) == [s EXCEPT !.posted = @ \o <<message>>]

\* isEffectivelyEmpty of persistImmediately
isEffectivelyEmpty(markup) ==
    Call(LAMBDA normalized :
        LET hasContent == MeaningfulText(normalized) # <<>>
            hasNonTextContent ==
                QuerySelector(normalized, NON_TEXT_CONTENT_SELECTOR)
        IN  ~hasContent /\ ~hasNonTextContent,
        markup)

\* persistImmediately without its comparison with the last-persisted value.
persistImmediatelyAlwaysWriting(state, value, broadcast) ==
    Call(LAMBDA s : Call(LAMBDA normalized :
        IF isEffectivelyEmpty(normalized)
        THEN LET s1 == [s EXCEPT !.lastPersistedValue = Some(<<>>),
                                 !.tasks = @ \o removeStoredValue(s.storageKey)
                                             \o deleteNoteMetadata(s.slug),
                                 !.ret = <<>>]
             IN  IF broadcast THEN postMessage(s1, <<>>) ELSE s1
        ELSE LET title == deriveTitleFromMarkup(normalized)
                 meta == [slug |-> s.slug, title |-> title, updatedAt |-> s.now]
                 s1 == [s EXCEPT !.lastPersistedValue = Some(normalized),
                                 !.tasks = @ \o saveNoteMetadata(meta)
                                             \o writeStoredValue(s.storageKey,
                                                                 normalized),
                                 !.ret = normalized]
             IN  IF broadcast THEN postMessage(s1, normalized) ELSE s1,
        normalizeMarkup(sanitizeHtml(value))), state)

\* persistImmediately whose emptiness branch leaves the metadata entry.
persistImmediatelyKeepingMetadata(state, value, broadcast) ==
    Call(LAMBDA s : Call(LAMBDA normalized :
        IF isEffectivelyEmpty(normalized)
        THEN LET s1 == [s EXCEPT !.lastPersistedValue = Some(<<>>),
                                 !.tasks = @ \o removeStoredValue(s.storageKey),
                                 !.ret = <<>>]
             IN  IF broadcast THEN postMessage(s1, <<>>) ELSE s1
        ELSE IF Some(normalized) = s.lastPersistedValue
        THEN [s EXCEPT !.ret = normalized]
        ELSE LET title == deriveTitleFromMarkup(normalized)
                 meta == [slug |-> s.slug, title |-> title, updatedAt |-> s.now]
                 s1 == [s EXCEPT !.lastPersistedValue = Some(normalized),
                                 !.tasks = @ \o saveNoteMetadata(meta)
                                             \o writeStoredValue(s.storageKey,
                                                                 normalized),
                                 !.ret = normalized]
             IN  IF broadcast THEN postMessage(s1, normalized) ELSE s1,
        normalizeMarkup(sanitizeHtml(value))), state)

\* persistImmediately without its emptiness branch.
persistImmediatelyWritingEmpty(state, value, broadcast) ==
    Call(LAMBDA s : Call(LAMBDA normalized :
        LET meta == [slug |-> s.slug,
                     title |-> deriveTitleFromMarkup(normalized),
                     updatedAt |-> s.now]
            s1 == [s EXCEPT !.lastPersistedValue = Some(normalized),
                            !.tasks = @ \o saveNoteMetadata(meta)
                                        \o writeStoredValue(s.storageKey,
                                                            normalized),
                            !.ret = normalized]
        IN  IF Some(normalized) = s.lastPersistedValue
            THEN [s EXCEPT !.ret = normalized]
            ELSE IF broadcast THEN postMessage(s1, normalized) ELSE s1,
        normalizeMarkup(sanitizeHtml(value))), state)

persistImmediately(state, value, broadcast) ==
    Call(LAMBDA s : Call(LAMBDA normalized :
        IF isEffectivelyEmpty(normalized)
        THEN LET s1 == [s EXCEPT !.lastPersistedValue = Some(<<>>),
                                 !.tasks = @ \o removeStoredValue(s.storageKey)
                                             \o deleteNoteMetadata(s.slug),
                                 !.ret = <<>>]
             IN  IF broadcast THEN postMessage(s1, <<>>) ELSE s1
        ELSE IF Some(normalized) = s.lastPersistedValue
        THEN [s EXCEPT !.ret = normalized]
        ELSE LET title == deriveTitleFromMarkup(normalized)
                 meta == [slug |-> s.slug, title |-> title, updatedAt |-> s.now]
                 s1 == [s EXCEPT !.lastPersistedValue = Some(normalized),
                                 !.tasks = @ \o saveNoteMetadata(meta)
                                             \o writeStoredValue(s.storageKey,
                                                                 normalized),
                                 !.ret = normalized]
             IN  IF broadcast THEN postMessage(s1, normalized) ELSE s1,
        normalizeMarkup(sanitizeHtml(value))), state)

\* element.innerHTML = sanitized, when it differs
setInnerHTML(el, sanitized) ==
    Call(LAMBDA markup :
             IF el.html # markup THEN [el EXCEPT !.html = markup] ELSE el,
         sanitized)

\* apply persisting with the default options (broadcast not suppressed).
applyBroadcasting(s, value) ==
    Call(LAMBDA el :
        LET normalized == el.html
            s1 == [s EXCEPT !.element = el, !.lastKnownDomValue = normalized]
            s2 == persistImmediately(s1, normalized, TRUE)
        IN  [titleFlush(s2) EXCEPT !.ret = normalized],
        normalizeNoteElement(setInnerHTML(s.element, sanitizeHtml(value))))

apply(s, value) ==
    Call(LAMBDA el :
        LET normalized == el.html
            s1 == [s EXCEPT !.element = el, !.lastKnownDomValue = normalized]
            s2 == persistImmediately(s1, normalized, FALSE)
        IN  [titleFlush(s2) EXCEPT !.ret = normalized],
        normalizeNoteElement(setInnerHTML(s.element, sanitizeHtml(value))))

\* commit without its persistContent.cancel().
commitWithoutCancel(s, value, broadcast) ==
    Call(LAMBDA el :
        LET normalized == el.html
            s1 == [s EXCEPT !.element = el, !.lastKnownDomValue = normalized]
            s2 == persistImmediately(s1, normalized, broadcast)
        IN  titleFlush(s2),
        normalizeNoteElement(setInnerHTML(s.element, sanitizeHtml(value))))

commit(s, value, broadcast) ==
    Call(LAMBDA el :
        LET s0 == persistContentCancel(s)
            normalized == el.html
            s1 == [s0 EXCEPT !.element = el, !.lastKnownDomValue = normalized]
            s2 == persistImmediately(s1, normalized, broadcast)
        IN  titleFlush(s2),
        normalizeNoteElement(setInnerHTML(s.element, sanitizeHtml(value))))

\* queue without its comparison with the last-known value.
queueUnconditionally(state, value) ==
    persistContent(titleSchedule([state EXCEPT !.lastKnownDomValue = value]),
                   value)

queue(state, value) ==
    Call(LAMBDA s :
        IF value = s.lastKnownDomValue THEN s
        ELSE persistContent(
                 titleSchedule([s EXCEPT !.lastKnownDomValue = value]), value),
        state)

\* clear that leaves the surface as `element.innerHTML = ""` made it,
\* without the call of normalizeNoteElement.
clearWithoutNormalize(s, broadcast) ==
    LET s0 == persistContentCancel(s)
        el == [s.element EXCEPT !.html = <<>>]
        s1 == [s0 EXCEPT !.element = el,
                         !.lastKnownDomValue = el.html,
                         !.lastPersistedValue = Some(<<>>),
                         !.tasks = @ \o deleteNoteMetadata(s0.slug)
                                     \o removeStoredValue(s0.storageKey)]
        s2 == IF broadcast THEN postMessage(s1, <<>>) ELSE s1
    IN  titleFlush(s2)

clear(s, broadcast) ==
    LET s0 == persistContentCancel(s)
        el == normalizeNoteElement([s.element EXCEPT !.html = <<>>])
        s1 == [s0 EXCEPT !.element = el,
                         !.lastKnownDomValue = el.html,
                         !.lastPersistedValue = Some(<<>>),
                         !.tasks = @ \o deleteNoteMetadata(s0.slug)
                                     \o removeStoredValue(s0.storageKey)]
        s2 == IF broadcast THEN postMessage(s1, <<>>) ELSE s1
    IN  titleFlush(s2)

\* The "input" listener: normalize the surface, then queue its markup.
onInput(s) ==
    Call(LAMBDA el : queue([s EXCEPT !.element = el], el.html),
         normalizeNoteElement(s.element))

\* The message listener handing the value to commit instead of apply.
onMessageCommitting(s, value, isActiveElement) ==
    IF ~isActiveElement THEN commit(s, value, TRUE) ELSE s

\* The message listener without its activeElement test.
onMessageUnguarded(s, value, isActiveElement) == apply(s, value)

\* The channel's "message" listener.
onMessage(s, value, isActiveElement) ==
    IF ~isActiveElement THEN apply(s, value) ELSE s

\* The timeout callback persisting with broadcast suppressed.
onPersistTimeoutSilent(s) ==
    persistImmediately(persistContentCancel(s), s.persistTimer.val, FALSE)

\* The debounce's timeout callback: persistImmediately(value)
onPersistTimeout(s) ==
    persistImmediately(persistContentCancel(s), s.persistTimer.val, TRUE)

(***************************************************************************)
(* The state machine.                                                      *)
(***************************************************************************)
\* The surface and the synchronizer right after createNoteSynchronizer.
FreshElement == normalizeNoteElement(Element(<<>>, FALSE))

SavedMeta(s) == [slug |-> s, title |-> Old, updatedAt |-> 0]

\* A detached window: it is closed, or open with its document loading or
\* ready, or being closed (its pagehide event was dispatched and its unload
\* event is to come); `listeners` are the events for which the teardown of
\* attachPiPLifecycle is registered.
ClosedWindow == [state |-> "closed", listeners |-> {}]
NewWindow(ready) ==
    [state |-> IF ready THEN "ready" ELSE "loading", listeners |-> {}]

\* attachPiPLifecycle: teardown listens for pagehide and for unload.
attachPiPLifecycle(w) == [w EXCEPT !.listeners = {"pagehide", "unload"}]

\* teardown, as far as the window goes: both listeners are removed (the
\* one of the dispatched event also by `once`).
teardown(w, event) == [w EXCEPT !.listeners = {}]

\* The placement state held by the variables.
PlaceState ==
    [children |-> children, ownerDocument |-> ownerDocument,
     bodyAttached |-> bodyAttached, context |-> context]

\* The children of the containers of a page whose surface is a child of
\* parent, after the navigation bar, and is followed by a footer or is the
\* last child.
Layout(parent, hasNext) ==
    LET home == <<"nav", NoteNode>> \o (IF hasNext THEN <<"footer">> ELSE <<>>)
    IN  [c \in Containers |->
            IF c = "body" THEN <<"app">> \o (IF parent = "body" THEN home ELSE <<>>)
            ELSE IF c = "app" /\ parent = "app" THEN home
            ELSE <<>>]

\* The page of the other specifications.
HomeLayout == Layout("app", TRUE)

\* The state after createNotePlacement(getNoteElement()) on a page with the
\* given layout; `bodies` tells which detached documents have a body.
InitPlacement(layout, bodies) ==
    /\ children = layout
    /\ ownerDocument = "main"
    /\ bodyAttached = bodies
    /\ context = createNotePlacement([children |-> layout])
    /\ pipWindow = None
    /\ awaiting = 0
    /\ windows = [d \in DetachedDocs |-> ClosedWindow]
    /\ placeOps = <<>>

\* The detached windows are closed and the surface is at home.
InitAtHome == InitPlacement(HomeLayout, [d \in DetachedDocs |-> FALSE])

\* The ids renderSavedNotes gives its calls (++renderSequence).
RenderIds == 1..MaxRenders

\* A call of renderSavedNotes that has not been made yet.
NotStarted == [pc |-> "idle", metadataMap |-> {}, slugs |-> {}, failed |-> FALSE]

\* The state after setupSavedNotesSheet: no render yet, the list container
\* of SHEET_TEMPLATE is empty, no deletion asked for.
InitSheet ==
    /\ renderSequence = 0
    /\ storageReadFailed = FALSE
    /\ listContainer = [by |-> 0, shows |-> "nothing", entries |-> {}]
    /\ renders = [r \in RenderIds |-> NotStarted]
    /\ deletion = None

\* The state after initializeNoteContent has run in the views `open`, with
\* the notes `saved` left in the store by earlier sessions.
InitViews(open, saved) ==
    /\ alive = [v \in Views |-> v \in open]
    /\ element = [v \in Views |-> FreshElement]
    /\ lastKnownDomValue = [v \in Views |-> FreshElement.html]
    /\ lastPersistedValue = [v \in Views |-> None]
    /\ persistTimer = [v \in Views |-> None]
    /\ titleTimer = [v \in Views |-> FALSE]
    /\ idleHandle = [v \in Views |-> FALSE]
    /\ docTitle = [v \in Views |-> InitialTitle]
    /\ tasks = [v \in Views |-> IF v \in open THEN <<ReadTask>> ELSE <<>>]
    /\ inbox = [v \in Views |-> <<>>]
    /\ store = [k \in StorageKeys |->
                  IF k \in saved THEN Some(compressToUTF16(SavedMarkup))
                  ELSE None]
    /\ index = [s \in Slugs |->
                  IF \E k \in saved : getSlugFromStorageKey(k) = s
                  THEN Some(SavedMeta(s)) ELSE None]
    /\ nops = 0
    /\ nposted = 0
    /\ nunloads = 0
    /\ lastOp = [v \in Views |-> Op("init", <<>>, FALSE, <<>>, <<>>, None, FALSE, FALSE)]
    /\ lastInput = [v \in Views |-> None]

\* Two views, on the same note or on two notes, over an empty store.
Init ==
    /\ scope \in {f \in [Views -> Scopes] : f["v1"] = ""}
    /\ budget = MaxDuoOps
    /\ InitSheet
    /\ InitViews(Views, {})
    /\ InitAtHome

\* One view of the default note; the store is empty or holds its record.
InitSolo ==
    /\ scope = [v \in Views |-> ""]
    /\ budget = MaxOps
    /\ InitSheet
    /\ \E saved \in SUBSET {DEFAULT_STORAGE_KEY} : InitViews({"v1"}, saved)
    /\ InitAtHome

\* The views a message posted by `sender` is delivered to: every other open
\* view of the browser profile (all views share CHANNEL_NAME).
Receivers(sender) == {w \in Views : w # sender /\ alive[w]}

\* Install the synchronizer state s as view v's state after a handler; the
\* handler leaves baseTasks and baseInbox of what was pending before it.
Install(v, state, baseTasks, baseInbox, name, arg, flag) ==
  \E s \in {state} :
    /\ element' = [element EXCEPT ![v] = s.element]
    /\ lastKnownDomValue' = [lastKnownDomValue EXCEPT ![v] = s.lastKnownDomValue]
    /\ lastPersistedValue' =
           [lastPersistedValue EXCEPT ![v] = s.lastPersistedValue]
    /\ persistTimer' = [persistTimer EXCEPT ![v] = s.persistTimer]
    /\ titleTimer' = [titleTimer EXCEPT ![v] = s.titleTimer]
    /\ idleHandle' = [idleHandle EXCEPT ![v] = s.idleHandle]
    /\ docTitle' = [docTitle EXCEPT ![v] = s.docTitle]
    /\ tasks' = [tasks EXCEPT ![v] = Earlier(baseTasks) \o s.tasks]
    /\ inbox' = [w \in Views |->
                   IF w = v THEN baseInbox
                   ELSE IF w \in Receivers(v) THEN inbox[w] \o s.posted
                   ELSE inbox[w]]
    /\ nposted' = nposted + Len(s.posted)
    /\ lastOp' = [lastOp EXCEPT ![v] =
                     Op(name, arg, flag, s.posted, s.ret, persistTimer[v],
                        Persisted(v), titleTimer[v] \/ idleHandle[v])]

\* An edit leaves the surface holding dom; the input listener runs.
Input(v, dom) ==
    /\ alive[v] /\ nops < budget
    /\ LET s0 == [SyncState(v) EXCEPT !.element.html = dom]
           s == onInput(s0)
       IN  /\ Install(v, s, tasks[v], inbox[v], "input", s.element.html, TRUE)
           /\ lastInput' = [lastInput EXCEPT ![v] =
                              IF s.element.html # lastKnownDomValue[v]
                              THEN Some(s.element.html) ELSE @]
    /\ nops' = nops + 1
    /\ UNCHANGED <<sheetVars, placeVars, scope, alive, budget, store, index, nunloads>>

\* sync.commit(value, {broadcast})
Commit(v, value, broadcast) ==
    /\ alive[v] /\ nops < budget
    /\ Install(v, commit(SyncState(v), value, broadcast), tasks[v], inbox[v],
               "commit", value, broadcast)
    /\ lastInput' = [lastInput EXCEPT ![v] = None]
    /\ nops' = nops + 1
    /\ UNCHANGED <<sheetVars, placeVars, scope, alive, budget, store, index, nunloads>>

\* sync.clear({broadcast})
Clear(v, broadcast) ==
    /\ alive[v] /\ nops < budget
    /\ Install(v, clear(SyncState(v), broadcast), tasks[v], inbox[v],
               "clear", <<>>, broadcast)
    /\ lastInput' = [lastInput EXCEPT ![v] = None]
    /\ nops' = nops + 1
    /\ UNCHANGED <<sheetVars, placeVars, scope, alive, budget, store, index, nunloads>>

\* The debounce delay of the pending persist elapses.
PersistTimeout(v) ==
    /\ alive[v] /\ persistTimer[v].some
    /\ Install(v, onPersistTimeout(SyncState(v)), tasks[v], inbox[v],
               "persist", persistTimer[v].val, TRUE)
    /\ UNCHANGED <<sheetVars, placeVars, scope, alive, budget, store, index, nops, nunloads,
                   lastInput>>

\* The title scheduler's 250 ms timeout elapses.
TitleTimeout(v) ==
    /\ alive[v] /\ titleTimer[v]
    /\ titleTimer' = [titleTimer EXCEPT ![v] = FALSE]
    /\ idleHandle' = [idleHandle EXCEPT ![v] = TRUE]
    /\ UNCHANGED <<sheetVars, placeVars, scope, alive, element, lastKnownDomValue,
                   lastPersistedValue, persistTimer, docTitle, tasks, inbox,
                   store, index, budget, nops, nposted, nunloads, lastOp,
                   lastInput>>

\* The title scheduler's idle callback runs.
IdleCallback(v) ==
    /\ alive[v] /\ idleHandle[v]
    /\ idleHandle' = [idleHandle EXCEPT ![v] = FALSE]
    /\ docTitle' = [docTitle EXCEPT ![v] = titleRun(SyncState(v)).docTitle]
    /\ UNCHANGED <<sheetVars, placeVars, scope, alive, element, lastKnownDomValue,
                   lastPersistedValue, persistTimer, titleTimer, tasks, inbox,
                   store, index, budget, nops, nposted, nunloads, lastOp,
                   lastInput>>

\* The channel's message listener handles the oldest delivered message;
\* isActiveElement tells whether the surface is then the activeElement of its
\* document.
Receive(v, isActiveElement) ==
    /\ alive[v] /\ inbox[v] # <<>>
    /\ Install(v, onMessage(SyncState(v), Head(inbox[v]), isActiveElement),
               tasks[v], Tail(inbox[v]), "message", Head(inbox[v]),
               isActiveElement)
    /\ lastInput' = [lastInput EXCEPT ![v] =
                       IF isActiveElement THEN @ ELSE None]
    /\ UNCHANGED <<sheetVars, placeVars, scope, alive, budget, store, index, nops, nunloads>>

\* The initial read resolves: sync.apply(savedValue).
LoadDone(v) ==
    /\ alive[v] /\ tasks[v] # <<>> /\ Head(tasks[v]).k = "read"
    /\ LET savedValue == readStoredValue(storageKey(v))
       IN  Install(v, apply(SyncState(v), savedValue), Tail(tasks[v]),
                   inbox[v], "load", savedValue, FALSE)
    /\ lastInput' = [lastInput EXCEPT ![v] = None]
    /\ UNCHANGED <<sheetVars, placeVars, scope, alive, budget, store, index, nops, nunloads>>

\* storage.setItem of a record completes.
SetDone(v) ==
    /\ tasks[v] # <<>> /\ Head(tasks[v]).k = "set"
    /\ store' = [store EXCEPT ![Head(tasks[v]).key] = Some(Head(tasks[v]).val)]
    /\ tasks' = [tasks EXCEPT ![v] = Tail(@)]
    /\ UNCHANGED <<sheetVars, placeVars, scope, alive, viewVars, inbox, index, budget, nops, nposted,
                   nunloads, lastOp, lastInput>>

\* storage.removeItem of a record completes.
RemoveDone(v) ==
    /\ tasks[v] # <<>> /\ Head(tasks[v]).k = "remove"
    /\ store' = [store EXCEPT ![Head(tasks[v]).key] = None]
    /\ tasks' = [tasks EXCEPT ![v] = Tail(@)]
    /\ UNCHANGED <<sheetVars, placeVars, scope, alive, viewVars, inbox, index, budget, nops, nposted,
                   nunloads, lastOp, lastInput>>

\* saveNoteMetadata after its readIndex: return, or writeIndex(index).
SaveMetaRead(v) ==
    /\ alive[v] /\ tasks[v] # <<>> /\ Head(tasks[v]).k = "saveMeta"
    /\ LET metadata == Head(tasks[v]).meta
           existing == index[metadata.slug]
       IN  tasks' = [tasks EXCEPT ![v] =
                IF /\ existing.some
                   /\ existing.val.title = metadata.title
                   /\ existing.val.updatedAt = metadata.updatedAt
                THEN Tail(@)
                ELSE Tail(@) \o <<WriteIndexTask(
                         [index EXCEPT ![metadata.slug] = Some(metadata)],
                         Head(tasks[v]).last)>>]
    /\ UNCHANGED <<sheetVars, placeVars, scope, alive, viewVars, inbox, store, index, budget, nops,
                   nposted, nunloads, lastOp, lastInput>>

\* deleteNoteMetadata after its readIndex: return, or writeIndex(index).
DeleteMetaRead(v) ==
    /\ alive[v] /\ tasks[v] # <<>> /\ Head(tasks[v]).k = "deleteMeta"
    /\ LET s == Head(tasks[v]).slug
       IN  tasks' = [tasks EXCEPT ![v] =
                IF ~index[s].some THEN Tail(@)
                ELSE Tail(@) \o <<WriteIndexTask([index EXCEPT ![s] = None],
                                                 Head(tasks[v]).last)>>]
    /\ UNCHANGED <<sheetVars, placeVars, scope, alive, viewVars, inbox, store, index, budget, nops,
                   nposted, nunloads, lastOp, lastInput>>

\* storage.setItem of the metadata index completes.
WriteIndexDone(v) ==
    /\ tasks[v] # <<>> /\ Head(tasks[v]).k = "writeIndex"
    /\ index' = Head(tasks[v]).index
    /\ tasks' = [tasks EXCEPT ![v] = Tail(@)]
    /\ UNCHANGED <<sheetVars, placeVars, scope, alive, viewVars, inbox, store, budget, nops, nposted,
                   nunloads, lastOp, lastInput>>

\* The storage calls that need no code of the page to complete.
RECURSIVE FireAndForget(_)
FireAndForget(ts) ==
    IF ts = <<>> THEN <<>>
    ELSE IF Head(ts).k \in {"set", "remove", "writeIndex"}
         THEN <<Head(ts)>> \o FireAndForget(Tail(ts))
         ELSE FireAndForget(Tail(ts))

\* The page is closed or refreshed: its timers, listeners and promise
\* continuations are gone; storage calls already issued may still complete.
Unload(v) ==
    /\ alive[v] /\ nops < budget
    /\ alive' = [alive EXCEPT ![v] = FALSE]
    /\ element' = [element EXCEPT ![v] = Element(<<>>, FALSE)]
    /\ lastKnownDomValue' = [lastKnownDomValue EXCEPT ![v] = <<>>]
    /\ lastPersistedValue' = [lastPersistedValue EXCEPT ![v] = None]
    /\ persistTimer' = [persistTimer EXCEPT ![v] = None]
    /\ titleTimer' = [titleTimer EXCEPT ![v] = FALSE]
    /\ idleHandle' = [idleHandle EXCEPT ![v] = FALSE]
    /\ docTitle' = [docTitle EXCEPT ![v] = InitialTitle]
    /\ \E keep \in BOOLEAN :
         tasks' = [tasks EXCEPT ![v] =
                     IF keep THEN Earlier(FireAndForget(@)) ELSE <<>>]
    /\ inbox' = [inbox EXCEPT ![v] = <<>>]
    /\ nunloads' = nunloads + 1
    /\ nops' = nops + 1
    /\ lastOp' = [lastOp EXCEPT ![v] = Op("unload", <<>>, FALSE, <<>>, <<>>, persistTimer[v],
                        FALSE, FALSE)]
    /\ UNCHANGED <<sheetVars, placeVars, scope, store, index, budget, nposted, lastInput>>

\* The page is opened again on the same URL: initializeNoteContent.
Reload(v) ==
    /\ ~alive[v]
    /\ alive' = [alive EXCEPT ![v] = TRUE]
    /\ element' = [element EXCEPT ![v] = FreshElement]
    /\ lastKnownDomValue' = [lastKnownDomValue EXCEPT ![v] = FreshElement.html]
    /\ tasks' = [tasks EXCEPT ![v] = Earlier(@) \o <<ReadTask>>]
    /\ lastOp' = [lastOp EXCEPT ![v] = Op("init", <<>>, FALSE, <<>>, <<>>, None, FALSE, FALSE)]
    /\ UNCHANGED <<sheetVars, placeVars, scope, lastPersistedValue, persistTimer, titleTimer,
                   idleHandle, docTitle, inbox, store, index, budget, nops,
                   nposted, nunloads, lastInput>>

\* Two views: everything but page unloads.
Next ==
    \E v \in Views :
        \/ \E dom \in InputDoms : Input(v, dom)
        \/ \E value \in CommitValues, broadcast \in BOOLEAN :
               Commit(v, value, broadcast)
        \/ \E broadcast \in BOOLEAN : Clear(v, broadcast)
        \/ PersistTimeout(v)
        \/ TitleTimeout(v)
        \/ IdleCallback(v)
        \/ \E isActiveElement \in BOOLEAN : Receive(v, isActiveElement)
        \/ LoadDone(v)
        \/ SetDone(v)
        \/ RemoveDone(v)
        \/ SaveMetaRead(v)
        \/ DeleteMetaRead(v)
        \/ WriteIndexDone(v)

Spec == Init /\ [][Next]_vars

\* One view, which may be closed and opened again; no sibling posts to it.
NextSolo ==
    \/ \E dom \in InputDoms : Input("v1", dom)
    \/ \E value \in CommitValues, broadcast \in BOOLEAN :
           Commit("v1", value, broadcast)
    \/ \E broadcast \in BOOLEAN : Clear("v1", broadcast)
    \/ PersistTimeout("v1")
    \/ TitleTimeout("v1")
    \/ IdleCallback("v1")
    \/ LoadDone("v1")
    \/ SetDone("v1")
    \/ RemoveDone("v1")
    \/ SaveMetaRead("v1")
    \/ DeleteMetaRead("v1")
    \/ WriteIndexDone("v1")
    \/ Unload("v1")
    \/ Reload("v1")

SpecSolo == InitSolo /\ [][NextSolo]_vars

\* A step of the event loop: a timer that is due, an idle callback, the
\* completion of a storage call, or the dispatch of a delivered message.
EventLoopStep ==
    \E v \in Views :
        \/ PersistTimeout(v)
        \/ TitleTimeout(v)
        \/ IdleCallback(v)
        \/ \E isActiveElement \in BOOLEAN : Receive(v, isActiveElement)
        \/ LoadDone(v)
        \/ SetDone(v)
        \/ RemoveDone(v)
        \/ SaveMetaRead(v)
        \/ DeleteMetaRead(v)
        \/ WriteIndexDone(v)

\* The event loop does not stall while it has work to do.
Fairness == WF_vars(EventLoopStep)

SpecLive == Init /\ [][Next]_vars /\ Fairness

(***************************************************************************)
(* Properties.                                                             *)
(***************************************************************************)
\* The normalized form of a value, as the persist path computes it.
Normalized(value) == normalizeMarkup(sanitizeHtml(value))

\* The record the store holds for a value once it is persisted: none for an
\* effectively-empty value.
RecordOf(value) ==
    IF isEffectivelyEmpty(Normalized(value)) THEN None
    ELSE Some(compressToUTF16(Normalized(value)))

\* C1: commit(v) and clear() cancel a pending debounced persist: after the
\* call no persist timer is pending in the view (so the queued w is never
\* written or broadcast by a timer), and once the view's storage calls have
\* completed the record is the normalized v, absent for clear and for an
\* effectively-empty v.
C1_CommitClearCancelPending ==
    \A v \in Views :
        (lastOp[v].op \in {"commit", "clear"} /\ lastOp[v].pending.some) =>
            /\ ~persistTimer[v].some
            /\ tasks[v] = <<>> =>
                   store[storageKey(v)] = RecordOf(lastOp[v].arg)

\* A commit of v ran while another value w was pending, and its storage
\* calls have completed with v in the store.
C1_Witness ==
    \E v \in Views :
        /\ lastOp[v].op = "commit"
        /\ lastOp[v].pending.some
        /\ Normalized(lastOp[v].pending.val) # Normalized(lastOp[v].arg)
        /\ tasks[v] = <<>>
        /\ store[storageKey(v)].some
        /\ store[storageKey(v)] = RecordOf(lastOp[v].arg)

\* The last handler of view v ran apply: the initial load, or a message
\* handled while the surface was not the activeElement.
Applied(v) ==
    \/ lastOp[v].op = "load"
    \/ lastOp[v].op = "message" /\ ~lastOp[v].flag

\* C2: apply(v), for the initial load or an inbound broadcast, cancels a
\* debounced persist that queue(w) left pending, so that no timer writes or
\* broadcasts w afterwards.
C2_ApplyCancelsPending ==
    \A v \in Views :
        (Applied(v) /\ lastOp[v].pending.some) => ~persistTimer[v].some

\* The value the next session of view v loads, should it start now.
NextLoad(v) == readStoredValue(storageKey(v))

\* C3: local edits survive a refresh: when the page has been unloaded after
\* an input event (not superseded by a later apply, commit or clear) and the
\* storage calls it had issued are over, the value the next session loads is
\* the markup of that input (the empty value when it is effectively empty).
C3_EditsSurviveRefresh ==
    \A v \in Views :
        (~alive[v] /\ tasks[v] = <<>> /\ lastInput[v].some) =>
            NextLoad(v) = (IF isEffectivelyEmpty(lastInput[v].val) THEN <<>>
                           ELSE Normalized(lastInput[v].val))

\* C4: a value committed or queued in a view of note X is delivered only to
\* views of note X: a view none of whose siblings is on its note never
\* applies a channel message (its surface, title, record and metadata entry
\* are not changed by one).
C4_OnlySiblingsOfSameNote ==
    \A v \in Views :
        (\A w \in Views \ {v} : scope[w] # scope[v]) =>
            ~(lastOp[v].op = "message" /\ ~lastOp[v].flag)

\* C5: apply(v) posts no message on the channel, whether v is effectively
\* empty, already persisted, or new: a handler that ran apply (the initial
\* load, a message handled while not focused) posted nothing.
C5_ApplyPostsNothing ==
    \A v \in Views : Applied(v) => lastOp[v].posted = <<>>

\* A view applied a non-empty message that was new to it and persisted it.
C5_Witness ==
    \E v \in Views :
        /\ lastOp[v].op = "message" /\ ~lastOp[v].flag
        /\ ~isEffectivelyEmpty(Normalized(lastOp[v].arg))
        /\ lastPersistedValue[v] = Some(Normalized(lastOp[v].arg))
        /\ tasks[v] # <<>>
        /\ lastOp[v].posted = <<>>

\* C6: commit(v) without broadcast:false posts exactly one message carrying
\* the normalized v (the empty string when v is effectively empty), also
\* when v equals the value the view last persisted; with broadcast:false it
\* posts none.
C6_CommitPostsOnce ==
    \A v \in Views :
        lastOp[v].op = "commit" =>
            lastOp[v].posted =
                (IF ~lastOp[v].flag THEN <<>>
                 ELSE IF isEffectivelyEmpty(Normalized(lastOp[v].arg))
                      THEN << <<>> >>
                      ELSE << Normalized(lastOp[v].arg) >>)

\* No message is in flight and no pending persist will post one.
ChannelQuiet ==
    \A v \in Views : inbox[v] = <<>> /\ ~persistTimer[v].some

\* C7: handling an inbound message never makes the receiving view post one;
\* the number of messages ever posted is at most the number of local queue,
\* commit and clear operations; and the channel eventually stays silent.
C7_NoEcho ==
    /\ [](\A v \in Views : lastOp[v].op = "message" => lastOp[v].posted = <<>>)
    /\ [](nposted <= nops - nunloads)
    /\ <>[]ChannelQuiet

\* A view handled a message that changed its content, and posted nothing.
C7_Witness ==
    \E v \in Views :
        /\ lastOp[v].op = "message" /\ ~lastOp[v].flag
        /\ lastOp[v].arg # <<>>
        /\ element[v].html = lastOp[v].arg
        /\ nposted = 1
        /\ ChannelQuiet

\* C8: a message handled while the surface is the activeElement changes
\* nothing in the view (surface, last-known and last-persisted values,
\* title), issues no storage call and leaves record and metadata as they
\* are; handled while the surface is not focused, its value is applied.
C8_FocusGuard ==
    [][\A v \in Views :
          (/\ inbox[v] # <<>>
           /\ inbox'[v] = Tail(inbox[v])
           /\ lastOp'[v].op = "message") =>
              IF lastOp'[v].flag
              THEN /\ element'[v] = element[v]
                   /\ lastKnownDomValue'[v] = lastKnownDomValue[v]
                   /\ lastPersistedValue'[v] = lastPersistedValue[v]
                   /\ docTitle'[v] = docTitle[v]
                   /\ tasks'[v] = Earlier(tasks[v])
                   /\ store' = store
                   /\ index' = index
              ELSE /\ element'[v].html = Normalized(Head(inbox[v]))
                   /\ lastKnownDomValue'[v] = Normalized(Head(inbox[v]))]_vars

\* A focused view handled a message whose value differs from its content.
C8_Witness ==
    \E v \in Views :
        /\ lastOp[v].op = "message" /\ lastOp[v].flag
        /\ element[v].html # Normalized(lastOp[v].arg)

\* C9: after queue(v) of a non-empty v that differs from the last-known
\* value and no further operation on the view, once the debounce has fired
\* and the storage calls of every view have completed, the record is the
\* normalized v and the metadata entry of the note's slug carries the title
\* derived from v.
C9_QueuePersists ==
    \A v \in Views :
        (/\ lastOp[v].op = "persist"
         /\ lastInput[v].some
         /\ ~isEffectivelyEmpty(Normalized(lastInput[v].val))
         /\ \A w \in Views : tasks[w] = <<>>) =>
            /\ store[storageKey(v)] = RecordOf(lastInput[v].val)
            /\ index[slug(v)].some
            /\ index[slug(v)].val.title =
                   deriveTitleFromMarkup(Normalized(lastInput[v].val))

\* The non-empty normalized values a view can queue or commit.
BroadcastValues ==
    {Normalized(x) : x \in InputDoms \cup CommitValues} \ {EmptyBlock}

\* View v has queued or committed (broadcasting) the non-empty value val, the
\* only user-level event of the run.
Originated(v, val) ==
    /\ nops = 1
    /\ \/ lastOp[v].op = "input" /\ lastInput[v] = Some(val)
       \/ lastOp[v].op = "commit" /\ lastOp[v].flag
              /\ Normalized(lastOp[v].arg) = val

\* View w has not yet handled the message carrying val: the debounce of the
\* originating view is still pending, or the message waits for w's listener.
Unhandled(v, w, val) ==
    \/ persistTimer[v] = Some(val)
    \/ \E i \in 1..Len(inbox[w]) : inbox[w][i] = val

\* C10: when one view queues or commits a non-empty v and no other operation
\* occurs, every other open view of the same note eventually displays the
\* normalized v, unless it handles the message while its surface is focused.
C10_SiblingsDisplay ==
    \A v \in Views : \A w \in Views \ {v} : \A val \in BroadcastValues :
        (/\ Originated(v, val) /\ Unhandled(v, w, val)
         /\ scope[v] = scope[w] /\ alive[w])
            ~> \/ element[w].html = val
               \/ lastOp[w].op = "message" /\ lastOp[w].flag
               \/ nops > 1

\* A sibling on the same note displays the value queued in the other view.
C10_Witness ==
    \E v \in Views : \E w \in Views \ {v} :
        /\ scope[v] = scope[w]
        /\ lastOp[v].op = "persist"
        /\ lastOp[w].op = "message" /\ ~lastOp[w].flag
        /\ element[w].html = Normalized(lastOp[v].arg)
        /\ element[w].html # EmptyBlock

\* No record of the store and no pending write holds effectively-empty
\* markup.
NoEmptyRecord ==
    /\ \A k \in StorageKeys :
           store[k].some => ~isEffectivelyEmpty(readStoredValue(k))
    /\ \A v \in Views : \A i \in 1..Len(tasks[v]) :
           tasks[v][i].k = "set" =>
               ~isEffectivelyEmpty(decompressFromUTF16(tasks[v][i].val).val)

\* The storage calls of the emptiness branch, issued after `base`.
DeletesIssued(v, base) ==
    tasks'[v] = Earlier(base) \o <<RemoveTask(storageKey(v)),
                          DeleteMetaTask(slug(v))>>

\* C11: the store never holds an effectively-empty record: a persist of an
\* effectively-empty value by queue's debounce, commit or apply issues the
\* removal of the record and of the metadata entry, and no write.
C11_EmptyNeverPersisted ==
    [][/\ NoEmptyRecord /\ NoEmptyRecord'
       /\ \A v \in Views :
            /\ (PersistTimeout(v)
                    /\ isEffectivelyEmpty(Normalized(persistTimer[v].val)))
                  => DeletesIssued(v, tasks[v])
            /\ \A value \in CommitValues :
                 ((\E broadcast \in BOOLEAN : Commit(v, value, broadcast))
                      /\ isEffectivelyEmpty(Normalized(value)))
                  => DeletesIssued(v, tasks[v])
            /\ (LoadDone(v)
                    /\ isEffectivelyEmpty(
                           Normalized(readStoredValue(storageKey(v)))))
                  => DeletesIssued(v, Tail(tasks[v]))
            /\ (Receive(v, FALSE)
                    /\ isEffectivelyEmpty(Normalized(Head(inbox[v]))))
                  => DeletesIssued(v, tasks[v])]_vars

\* The debounce persisted an effectively-empty value typed after other text:
\* no record is left.
C11_Witness ==
    \E v \in Views :
        /\ lastOp[v].op = "persist"
        /\ isEffectivelyEmpty(Normalized(lastOp[v].arg))
        /\ lastPersistedValue[v] = Some(<<>>)
        /\ tasks[v] = <<>>
        /\ ~store[storageKey(v)].some

\* Every timer of every view has fired and every storage call has completed.
Settled ==
    \A v \in Views :
        /\ tasks[v] = <<>>
        /\ ~persistTimer[v].some /\ ~titleTimer[v] /\ ~idleHandle[v]

\* C12: whenever all timers have fired and all storage calls have completed
\* (no page having been unloaded), the metadata index has an entry for a
\* note's slug if and only if a record exists under the note's storage key.
C12_MetadataLockstep ==
    (Settled /\ nunloads = 0) =>
        \A v \in Views : index[slug(v)].some <=> store[storageKey(v)].some

\* A call issued by the last handler of view v is still to complete.
CallsPending(v) == \E i \in 1..Len(tasks[v]) : tasks[v][i].last

\* The last handler of view v was commit of an effectively-empty value on a
\* note that then had a record and a metadata entry.
CommittedEmpty(v) ==
    /\ lastOp[v].op = "commit"
    /\ isEffectivelyEmpty(Normalized(lastOp[v].arg))
    /\ lastOp[v].had

\* C13: commit of an effectively-empty value on a note that has a record and
\* a metadata entry returns the empty string and posts exactly one
\* empty-string message (none with broadcast:false); when the last of the
\* storage calls it issued completes, the note has no record and no
\* metadata entry.
C13_CommitEmptyDeletes ==
    [][\A v \in Views :
          CommittedEmpty(v)' =>
              /\ lastOp'[v].ret = <<>>
              /\ lastOp'[v].posted =
                     (IF lastOp'[v].flag THEN << <<>> >> ELSE <<>>)
              /\ (CallsPending(v) /\ ~CallsPending(v)' /\ lastOp' = lastOp) =>
                     ~store'[storageKey(v)].some /\ ~index'[slug(v)].some]_vars

\* The empty string was committed on a saved note; its calls have completed
\* and nothing of the note is left.
C13_Witness ==
    \E v \in Views :
        /\ lastOp[v].op = "commit" /\ lastOp[v].arg = <<>> /\ lastOp[v].had
        /\ lastOp[v].flag
        /\ lastOp[v].posted = << <<>> >>
        /\ ~CallsPending(v)
        /\ ~store[storageKey(v)].some /\ ~index[slug(v)].some

\* C14: queue(v) with v equal to the last-known value (a second queue(v) in
\* succession) is a no-op: last-known and last-persisted values, the persist
\* timer, the title timer and idle callback and the title are unchanged, no
\* storage call is issued and no message is posted.
C14_QueueSameValueNoOp ==
    [][\A v \in Views : \A dom \in InputDoms :
          (Input(v, dom)
               /\ normalizeMarkup(dom) = lastKnownDomValue[v]) =>
              /\ lastKnownDomValue'[v] = lastKnownDomValue[v]
              /\ lastPersistedValue'[v] = lastPersistedValue[v]
              /\ persistTimer'[v] = persistTimer[v]
              /\ titleTimer'[v] = titleTimer[v]
              /\ idleHandle'[v] = idleHandle[v]
              /\ docTitle'[v] = docTitle[v]
              /\ tasks'[v] = Earlier(tasks[v])
              /\ inbox' = inbox
              /\ nposted' = nposted]_vars

\* A second input of the same text arrived while the persist scheduled by
\* the first was pending, after the title timer of the first had fired.
C14_Witness ==
    \E v \in Views :
        /\ lastOp[v].op = "input"
        /\ lastOp[v].pending = Some(lastOp[v].arg)
        /\ persistTimer[v] = Some(lastOp[v].arg)
        /\ ~isEffectivelyEmpty(lastOp[v].arg)
        /\ ~titleTimer[v]
        /\ nops = 2

\* The value is not effectively empty and is the one view v persisted last.
AlreadyPersisted(v, value) ==
    /\ ~isEffectivelyEmpty(Normalized(value))
    /\ lastPersistedValue[v] = Some(Normalized(value))

\* The handler issued no storage call and kept the last-persisted value.
NothingWritten(v, base) ==
    /\ tasks'[v] = Earlier(base)
    /\ lastPersistedValue'[v] = lastPersistedValue[v]
    /\ store' = store /\ index' = index

\* C15: a persist of a non-empty value equal to the view's last-persisted
\* value (by the debounce, by commit, or by apply for a load or a message)
\* issues no storage write and no metadata update.
C15_PersistIdempotent ==
    [][\A v \in Views :
          /\ (PersistTimeout(v) /\ AlreadyPersisted(v, persistTimer[v].val))
                => NothingWritten(v, tasks[v])
          /\ \A value \in CommitValues :
               ((\E broadcast \in BOOLEAN : Commit(v, value, broadcast))
                    /\ AlreadyPersisted(v, value))
                => NothingWritten(v, tasks[v])
          /\ (LoadDone(v) /\ AlreadyPersisted(v, readStoredValue(storageKey(v))))
                => NothingWritten(v, Tail(tasks[v]))
          /\ (Receive(v, FALSE) /\ AlreadyPersisted(v, Head(inbox[v])))
                => NothingWritten(v, tasks[v])]_vars

\* The same value was committed twice in succession: the second commit
\* issued no storage call.
C15_Witness ==
    \E v \in Views :
        /\ lastOp[v].op = "commit"
        /\ ~isEffectivelyEmpty(Normalized(lastOp[v].arg))
        /\ lastOp[v].flag /\ lastOp[v].posted = <<>>
        /\ lastPersistedValue[v] = Some(Normalized(lastOp[v].arg))
        /\ ~CallsPending(v)
        /\ store[storageKey(v)] = RecordOf(lastOp[v].arg)

\* The persist timer of view v fired and wrote or posted at most `value`:
\* the timer is consumed, any record issued is the one of value and any
\* message posted carries value.
TrailingPersist(v, value) ==
    /\ persistTimer'[v] = None
    /\ lastOp'[v].arg = value
    /\ \A i \in 1..Len(lastOp'[v].posted) :
          lastOp'[v].posted[i] \in {<<>>, Normalized(value)}
    /\ \A i \in 1..Len(tasks'[v]) :
          (tasks'[v][i].last /\ tasks'[v][i].k = "set")
              => Some(tasks'[v][i].val) = RecordOf(value)

\* C16: a queue call with a new value arriving while a persist is pending
\* replaces the pending call without writing or posting anything, and the
\* timeout that then fires persists the value of the last queue call; the
\* replaced value of the burst is neither written nor posted.
C16_DebounceTrailing ==
    [][\A v \in Views :
          /\ \A dom \in InputDoms :
               (Input(v, dom) /\ persistTimer[v].some
                              /\ normalizeMarkup(dom) # lastKnownDomValue[v])
                 => /\ persistTimer'[v] = Some(normalizeMarkup(dom))
                    /\ tasks'[v] = Earlier(tasks[v])
                    /\ lastOp'[v].posted = <<>>
                    /\ nposted' = nposted
          /\ (PersistTimeout(v) /\ lastInput[v].some)
                 => /\ persistTimer[v] = lastInput[v]
                    /\ TrailingPersist(v, lastInput[v].val)]_vars

\* A queue call replaced a pending persist of a different value.
C16_Witness ==
    \E v \in Views :
        /\ lastOp[v].op = "input"
        /\ lastOp[v].pending.some
        /\ lastOp[v].pending.val # lastOp[v].arg
        /\ persistTimer[v] = Some(lastOp[v].arg)
        /\ lastInput[v] = Some(lastOp[v].arg)

(***************************************************************************)
(* The normalizer on its own, over bounded content trees.                  *)
(***************************************************************************)
\* Nodes a contentEditable surface can hold at its top level: text, a
\* zero-width space, white space, an empty element, an image, a text block,
\* an empty block, and an image nested inside a block or an inline element.
ContentNodes ==
    { Text(Hi), Text(<<ZWSP>>), Text(<<" ">>),
      Elem("br", <<>>), Elem("img", <<>>),
      Elem("div", <<Text(Yo)>>), Elem("div", <<Elem("br", <<>>)>>),
      Elem("div", <<Elem("img", <<>>)>>),
      Elem("span", <<Elem("img", <<>>)>>) }

\* The content trees: up to MaxNodes top-level nodes.
ContentTrees ==
    UNION {[1..n -> ContentNodes] : n \in 0..MaxNodes}

\* A surface holding any content tree, before any normalization; nothing
\* else is going on in the view.
InitNormalize ==
    /\ scope = [v \in Views |-> ""]
    /\ budget = MaxRuns
    /\ InitSheet
    /\ InitAtHome
    /\ alive = [v \in Views |-> v = "v1"]
    /\ \E x \in ContentTrees, isEmpty \in BOOLEAN :
          element = [v \in Views |->
                        IF v = "v1" THEN Element(x, isEmpty) ELSE FreshElement]
    /\ lastKnownDomValue = [v \in Views |-> FreshElement.html]
    /\ lastPersistedValue = [v \in Views |-> None]
    /\ persistTimer = [v \in Views |-> None]
    /\ titleTimer = [v \in Views |-> FALSE]
    /\ idleHandle = [v \in Views |-> FALSE]
    /\ docTitle = [v \in Views |-> InitialTitle]
    /\ tasks = [v \in Views |-> <<>>]
    /\ inbox = [v \in Views |-> <<>>]
    /\ store = [k \in StorageKeys |-> None]
    /\ index = [s \in Slugs |-> None]
    /\ nops = 0
    /\ nposted = 0
    /\ nunloads = 0
    /\ lastOp = [v \in Views |-> Op("init", <<>>, FALSE, <<>>, <<>>, None, FALSE, FALSE)]
    /\ lastInput = [v \in Views |-> None]

\* One call normalizeNoteElement(element) on the surface of view v.
NormalizeRun(v) ==
    /\ alive[v] /\ nops < budget
    /\ element' = [element EXCEPT ![v] = normalizeNoteElement(@)]
    /\ nops' = nops + 1
    /\ UNCHANGED <<sheetVars, placeVars, scope, alive, lastKnownDomValue, lastPersistedValue,
                   persistTimer, titleTimer, idleHandle, docTitle, tasks,
                   inbox, store, index, budget, nposted, nunloads, lastOp,
                   lastInput>>

NextNormalize == \E v \in Views : NormalizeRun(v)

SpecNormalize == InitNormalize /\ [][NextNormalize]_vars

\* C17: normalize is idempotent on the surface: a run of the normalizer on
\* the markup a first run produced leaves that markup unchanged.
C17_NormalizeIdempotent ==
    [][\A v \in Views :
          (NormalizeRun(v) /\ nops >= 1) => element'[v].html = element[v].html]_vars

\* The last handler of view v was apply, commit or clear.
Flushed(v) == Applied(v) \/ lastOp[v].op \in {"commit", "clear"}

\* C18: after apply, commit or clear has returned, the document title is
\* the title of the surface's current text and neither the title timeout
\* nor the idle callback is pending, so a title update scheduled earlier
\* does not run afterwards.
C18_TitleFlushed ==
    \A v \in Views :
        Flushed(v) => /\ docTitle[v] = TitleOfElement(element[v])
                      /\ ~titleTimer[v] /\ ~idleHandle[v]

\* A commit or a clear ran while a title update scheduled by queue was
\* pending, and changed the title.
C18_Witness ==
    \E v \in Views :
        /\ lastOp[v].op \in {"commit", "clear"}
        /\ lastOp[v].titled
        /\ lastInput[v] = None
        /\ docTitle[v] # InitialTitle
        /\ docTitle[v] = TitleOfElement(element[v])

(***************************************************************************)
(* One view over a storage adapter whose calls may fail.                   *)
(***************************************************************************)
InitFaulty ==
    /\ scope = [v \in Views |-> ""]
    /\ budget = MaxFaultyOps
    /\ InitSheet
    /\ \E saved \in SUBSET {DEFAULT_STORAGE_KEY} : InitViews({"v1"}, saved)
    /\ InitAtHome

\* storage.getItem of the initial read rejects: readStoredValue logs and
\* returns "", and initializeNoteContent calls sync.apply("").  The flag of
\* the recorded handler run tells that the read failed.
LoadFail(v) ==
    /\ alive[v] /\ tasks[v] # <<>> /\ Head(tasks[v]).k = "read"
    /\ Install(v, apply(SyncState(v), <<>>), Tail(tasks[v]), inbox[v],
               "load", <<>>, TRUE)
    /\ lastInput' = [lastInput EXCEPT ![v] = None]
    /\ UNCHANGED <<sheetVars, placeVars, scope, alive, budget, store, index, nops, nunloads>>

\* storage.setItem or storage.removeItem of a record rejects:
\* writeStoredValue and removeStoredValue log the error.
RecordCallFail(v) ==
    /\ tasks[v] # <<>> /\ Head(tasks[v]).k \in {"set", "remove"}
    /\ tasks' = [tasks EXCEPT ![v] = Tail(@)]
    /\ UNCHANGED <<sheetVars, placeVars, scope, alive, viewVars, inbox, store, index, budget, nops,
                   nposted, nunloads, lastOp, lastInput>>

\* readIndex rejects inside saveNoteMetadata: it returns {}, and the index
\* written holds the one entry.
SaveMetaReadFail(v) ==
    /\ alive[v] /\ tasks[v] # <<>> /\ Head(tasks[v]).k = "saveMeta"
    /\ LET metadata == Head(tasks[v]).meta
       IN  tasks' = [tasks EXCEPT ![v] =
                Tail(@) \o <<WriteIndexTask(
                    [s \in Slugs |-> IF s = metadata.slug THEN Some(metadata)
                                     ELSE None],
                    Head(tasks[v]).last)>>]
    /\ UNCHANGED <<sheetVars, placeVars, scope, alive, viewVars, inbox, store, index, budget, nops,
                   nposted, nunloads, lastOp, lastInput>>

\* readIndex rejects inside deleteNoteMetadata: it returns {}, and
\* deleteNoteMetadata returns without writing.
DeleteMetaReadFail(v) ==
    /\ alive[v] /\ tasks[v] # <<>> /\ Head(tasks[v]).k = "deleteMeta"
    /\ tasks' = [tasks EXCEPT ![v] = Tail(@)]
    /\ UNCHANGED <<sheetVars, placeVars, scope, alive, viewVars, inbox, store, index, budget, nops,
                   nposted, nunloads, lastOp, lastInput>>

\* storage.setItem of the metadata index rejects: writeIndex logs the error.
WriteIndexFail(v) ==
    /\ tasks[v] # <<>> /\ Head(tasks[v]).k = "writeIndex"
    /\ tasks' = [tasks EXCEPT ![v] = Tail(@)]
    /\ UNCHANGED <<sheetVars, placeVars, scope, alive, viewVars, inbox, store, index, budget, nops,
                   nposted, nunloads, lastOp, lastInput>>

\* A storage call of view v fails.
StorageFailure(v) ==
    \/ LoadFail(v)
    \/ RecordCallFail(v)
    \/ SaveMetaReadFail(v)
    \/ DeleteMetaReadFail(v)
    \/ WriteIndexFail(v)

NextFaulty ==
    \/ \E dom \in InputDoms : Input("v1", dom)
    \/ \E value \in CommitValues, broadcast \in BOOLEAN :
           Commit("v1", value, broadcast)
    \/ \E broadcast \in BOOLEAN : Clear("v1", broadcast)
    \/ PersistTimeout("v1")
    \/ TitleTimeout("v1")
    \/ IdleCallback("v1")
    \/ LoadDone("v1")
    \/ SetDone("v1")
    \/ RemoveDone("v1")
    \/ SaveMetaRead("v1")
    \/ DeleteMetaRead("v1")
    \/ WriteIndexDone("v1")
    \/ LoadFail("v1")
    \/ RecordCallFail("v1")
    \/ SaveMetaReadFail("v1")
    \/ DeleteMetaReadFail("v1")
    \/ WriteIndexFail("v1")

SpecFaulty == InitFaulty /\ [][NextFaulty]_vars

\* C19: a failing storage call (get, set or remove) is a no-op for the
\* synchronizer: the step in which the failure is handled leaves the
\* surface's content and the last-known value unchanged and issues no
\* storage call, and the view stays able to queue and persist later input.
C19_FailureIsNoOp ==
    [][\A v \in Views :
          StorageFailure(v) =>
              /\ element'[v].html = element[v].html
              /\ lastKnownDomValue'[v] = lastKnownDomValue[v]
              /\ persistTimer'[v] = persistTimer[v]
              /\ alive'[v] = alive[v]
              /\ \/ tasks'[v] = Tail(tasks[v])
                 \/ tasks'[v] = Earlier(Tail(tasks[v]))
                 \/ SaveMetaReadFail(v)]_vars

\* The markup holds nothing the sanitizer removes.
Clean(markup) == ~QuerySelector(markup, ForbiddenTags)

\* The markup is what the normalizer returns for some clean string: the
\* empty block, markup with an element child kept as it is, or the block
\* wrapped around markup without one.
NormalizedClean(markup) ==
    /\ Clean(markup)
    /\ \/ markup = EmptyBlock
       \/ hasElementChild(markup)
       \/ /\ Len(markup) = 1 /\ markup[1].tag = "div"
          /\ normalizeMarkup(markup[1].kids) = markup

\* The markup a stored record decompresses to.
MarkupOf(stored) == decompressFromUTF16(stored).val

syncVars == <<scope, alive, viewVars, tasks, inbox, store, index, budget, nops,
              nposted, nunloads, lastOp, lastInput>>

\* Install the placement state p after the operation or event named op.
InstallPlacement(p, op) ==
    /\ Len(placeOps) < MaxPlaceOps
    /\ children' = p.children
    /\ ownerDocument' = p.ownerDocument
    /\ bodyAttached' = p.bodyAttached
    /\ context' = p.context
    /\ placeOps' = Append(placeOps, op)

\* showPlaceholder(context)
ShowPlaceholder ==
    /\ InstallPlacement(showPlaceholder(PlaceState), "showPlaceholder")
    /\ UNCHANGED <<pipWindow, awaiting, windows, syncVars, sheetVars>>

\* restoreNote(context)
RestoreNote ==
    /\ InstallPlacement(restoreNote(PlaceState), "restoreNote")
    /\ UNCHANGED <<pipWindow, awaiting, windows, syncVars, sheetVars>>

\* moveNoteToDocument(context, targetDocument)
MoveNoteToDocument(targetDocument) ==
    /\ InstallPlacement(moveNoteToDocument(PlaceState, targetDocument),
                        "moveNoteToDocument")
    /\ UNCHANGED <<pipWindow, awaiting, windows, syncVars, sheetVars>>

\* ensureDocumentChrome(doc): the document gets a body if it has none, and
\* the body is emptied.
ensureDocumentChrome(p, doc) ==
    [p EXCEPT !.bodyAttached[doc] = TRUE, !.children[doc] = <<>>]

\* setupPiPWindow(pipWindow, context)
setupPiPWindow(p, doc) ==
    moveNoteToDocument(showPlaceholder(ensureDocumentChrome(p, doc)), doc)

\* openPiPWindow(context) while no detached window is open, when the
\* request resolves before any other event: the window is requested, set up
\* at once when its document is ready and on its load event otherwise, and
\* its pagehide listener is attached.
OpenPiPWindow(doc, ready) ==
    /\ ~pipWindow.some
    /\ InstallPlacement(IF ready THEN setupPiPWindow(PlaceState, doc)
                        ELSE PlaceState, "open")
    /\ pipWindow' = Some([doc |-> doc, ready |-> ready])
    /\ windows' = [windows EXCEPT ![doc] = attachPiPLifecycle(NewWindow(ready))]
    /\ UNCHANGED <<awaiting, syncVars, sheetVars>>

\* The load event of the detached window: initialise().
PiPWindowLoad ==
    /\ pipWindow.some /\ ~pipWindow.val.ready
    /\ InstallPlacement(setupPiPWindow(PlaceState, pipWindow.val.doc), "load")
    /\ pipWindow' = Some([pipWindow.val EXCEPT !.ready = TRUE])
    /\ windows' = [windows EXCEPT ![pipWindow.val.doc].state = "ready"]
    /\ UNCHANGED <<awaiting, syncVars, sheetVars>>

\* The detached window is closed: its pagehide listener calls
\* restoreNote(context) and forgets the window.
ClosePiPWindow ==
    /\ pipWindow.some
    /\ InstallPlacement(restoreNote(PlaceState), "close")
    /\ pipWindow' = None
    /\ windows' = [windows EXCEPT ![pipWindow.val.doc] = ClosedWindow]
    /\ UNCHANGED <<awaiting, syncVars, sheetVars>>

\* An edit of the surface where it is displayed.
InputOnSurface(v, dom) ==
    /\ IsConnected(PlaceState, NoteNode)
    /\ Input(v, dom)

\* One view whose surface has any home position; each detached document
\* has a body or not.
InitPlace ==
    /\ scope = [v \in Views |-> ""]
    /\ budget = MaxPlaceInputs
    /\ InitSheet
    /\ InitViews({"v1"}, {})
    /\ \E parent \in {"body", "app"}, hasNext \in BOOLEAN,
          bodies \in [DetachedDocs -> BOOLEAN] :
            InitPlacement(Layout(parent, hasNext), bodies)

NextPlace ==
    \/ ShowPlaceholder
    \/ RestoreNote
    \/ \E doc \in DetachedDocs : MoveNoteToDocument(doc)
    \/ \E doc \in DetachedDocs, ready \in BOOLEAN : OpenPiPWindow(doc, ready)
    \/ PiPWindowLoad
    \/ ClosePiPWindow
    \/ \E dom \in InputDoms : InputOnSurface("v1", dom)
    \/ PersistTimeout("v1")
    \/ LoadDone("v1")

SpecPlace == InitPlace /\ [][NextPlace]_vars

\* The surface is where createNotePlacement found it: a child of its
\* original parent, right after the navigation bar and right before the
\* footer, or last when the parent has no footer.
AtHome ==
    LET p == PlaceState
        parent == context.originalParent
    IN  /\ ParentOf(p, NoteNode) = parent
        /\ ownerDocument = "main"
        /\ \E i \in 1..Len(children[parent]) - 1 :
              children[parent][i] = "nav" /\ children[parent][i + 1] = NoteNode
        /\ NextSibling(p, NoteNode) =
              (IF "footer" \in Range(children[parent]) THEN "footer" ELSE Null)

\* C21: from any home position, showPlaceholder followed by restoreNote,
\* with or without a moveNoteToDocument in between, puts the surface back
\* under its original parent right before its original next sibling, and
\* the placeholder is no longer connected.
C21_ShowThenRestore ==
    placeOps \in { <<"showPlaceholder", "restoreNote">>,
                   <<"showPlaceholder", "moveNoteToDocument", "restoreNote">> }
        => AtHome /\ ~IsConnected(PlaceState, PlaceholderNode)

\* The surface is back as the last child of the body after a placeholder,
\* a move into a detached document and a restore.
C21_Witness ==
    /\ placeOps = <<"showPlaceholder", "moveNoteToDocument", "restoreNote">>
    /\ context.originalParent = "body"
    /\ NextSibling(PlaceState, NoteNode) = Null
    /\ AtHome
    /\ ParentOf(PlaceState, PlaceholderNode) = Null

\* The places of the node graph where the surface is a child.
SurfacePlaces ==
    UNION {{<<c, i>> : i \in {j \in 1..Len(children[c]) :
                                  children[c][j] = NoteNode}} : c \in Containers}

\* The document whose tree container c belongs to.
DocumentOf(c) == IF c \in DetachedDocs THEN c ELSE "main"

\* The surface is in the tree of exactly one document, the one that owns it.
AttachedOnce ==
    /\ Cardinality(SurfacePlaces) = 1
    /\ \A pl \in SurfacePlaces :
          /\ ContainerConnected(PlaceState, pl[1])
          /\ DocumentOf(pl[1]) = ownerDocument

\* The surface is in no tree: the placeholder stands where it was, in the
\* main document, which still owns the surface.
HeldByPlaceholder ==
    /\ SurfacePlaces = {}
    /\ ownerDocument = "main"
    /\ IsConnected(PlaceState, PlaceholderNode)

\* C22 as stated: after any sequence of showPlaceholder, moveNoteToDocument,
\* restoreNote and window open and close events, the surface is attached to
\* exactly one document.
C22_AlwaysAttached == AttachedOnce

\* C22, amended: the surface is never duplicated; it is attached to exactly
\* one document, the one that owns it, except after a showPlaceholder that
\* no moveNoteToDocument or restoreNote has followed, when it is in no tree
\* and the placeholder holds its place.
C22_AttachedOrHeld == AttachedOnce \/ HeldByPlaceholder

\* The surface went into one detached document and then into another one.
C22_Witness ==
    /\ placeOps = <<"showPlaceholder", "moveNoteToDocument", "moveNoteToDocument">>
    /\ ownerDocument = "pip2"
    /\ children["pip1"] = <<>>
    /\ AttachedOnce

\* C23: moveNoteToDocument gives the target document a body when it has
\* none and leaves the surface, the same node, as the last child of that
\* body, owned by the target document; the move changes nothing of the
\* synchronizer, so a persist pending before it stays pending; and in a
\* detached document an input event with a new value is queued and the
\* debounce's timeout persists the pending value.
C23_MoveKeepsSynchronizer ==
    [][/\ \A doc \in DetachedDocs :
            MoveNoteToDocument(doc) =>
               /\ bodyAttached'[doc]
               /\ children'[doc] # <<>>
               /\ children'[doc][Len(children'[doc])] = NoteNode
               /\ ownerDocument' = doc
               /\ Cardinality(SurfacePlaces') = 1
               /\ persistTimer' = persistTimer
               /\ UNCHANGED syncVars
       /\ \A dom \in InputDoms :
            (InputOnSurface("v1", dom) /\ ownerDocument # "main"
                 /\ normalizeMarkup(dom) # lastKnownDomValue["v1"])
               => /\ persistTimer'["v1"] = Some(normalizeMarkup(dom))
                  /\ lastKnownDomValue'["v1"] = normalizeMarkup(dom)
       /\ (PersistTimeout("v1") /\ ownerDocument # "main")
               => /\ lastOp'["v1"].arg = persistTimer["v1"].val
                  /\ ~isEffectivelyEmpty(Normalized(persistTimer["v1"].val))
                        => /\ lastOp'["v1"].posted =
                                 (IF lastPersistedValue["v1"] =
                                        Some(Normalized(persistTimer["v1"].val))
                                  THEN <<>>
                                  ELSE <<Normalized(persistTimer["v1"].val)>>)
                           /\ lastPersistedValue'["v1"] =
                                 Some(Normalized(persistTimer["v1"].val))]_vars

\* The surface is in a detached document, moved there by
\* moveNoteToDocument alone, and the debounce's timeout has persisted the
\* text typed into it.
C23_Witness ==
    /\ placeOps = <<"moveNoteToDocument">>
    /\ ownerDocument = "pip1"
    /\ bodyAttached["pip1"] /\ ~bodyAttached["pip2"]
    /\ children["pip1"] = <<NoteNode>>
    /\ lastOp["v1"].op = "persist"
    /\ ~isEffectivelyEmpty(Normalized(lastOp["v1"].arg))
    /\ lastPersistedValue["v1"] = Some(Normalized(lastOp["v1"].arg))

\* C24: showPlaceholder is idempotent: called while the placeholder is
\* connected, it inserts no second placeholder, keeps the recorded anchor
\* and does not move the surface: the node graph and the placement context
\* are unchanged.
C24_ShowPlaceholderIdempotent ==
    [][(ShowPlaceholder /\ IsConnected(PlaceState, PlaceholderNode))
          => /\ children' = children
             /\ context' = context
             /\ ownerDocument' = ownerDocument
             /\ bodyAttached' = bodyAttached]_vars

\* showPlaceholder was called again after the surface had gone into a
\* detached document: the placeholder is at the surface's home, once.
C24_Witness ==
    /\ placeOps = <<"showPlaceholder", "moveNoteToDocument", "showPlaceholder">>
    /\ IsConnected(PlaceState, PlaceholderNode)
    /\ ParentOf(PlaceState, PlaceholderNode) = context.originalParent
    /\ NextSibling(PlaceState, PlaceholderNode) = context.anchor
    /\ ownerDocument # "main" /\ AttachedOnce

(***************************************************************************)
(* One view over a store left by an earlier session: no record, a          *)
(* compressed record, or a record of the format before compression.  The   *)
(* view commits values, its storage calls complete, and the page is closed *)
(* and opened again, which reads the record back.                          *)
(***************************************************************************)
StoredRecords ==
    { None,
      Some(compressToUTF16(SavedMarkup)),
      Some(LegacyRecord(SavedMarkup, None)),
      Some(LegacyRecord(SavedMarkup, Some(<<>>))) }

InitStored ==
    /\ scope = [v \in Views |-> ""]
    /\ budget = MaxStoredOps
    /\ InitSheet
    /\ alive = [v \in Views |-> v = "v1"]
    /\ element = [v \in Views |-> FreshElement]
    /\ lastKnownDomValue = [v \in Views |-> FreshElement.html]
    /\ lastPersistedValue = [v \in Views |-> None]
    /\ persistTimer = [v \in Views |-> None]
    /\ titleTimer = [v \in Views |-> FALSE]
    /\ idleHandle = [v \in Views |-> FALSE]
    /\ docTitle = [v \in Views |-> InitialTitle]
    /\ tasks = [v \in Views |-> IF v = "v1" THEN <<ReadTask>> ELSE <<>>]
    /\ inbox = [v \in Views |-> <<>>]
    /\ \E record \in StoredRecords :
         /\ store = [k \in StorageKeys |->
                       IF k = DEFAULT_STORAGE_KEY THEN record ELSE None]
         /\ index = [s \in Slugs |->
                       IF record.some /\ s = getSlugFromStorageKey(DEFAULT_STORAGE_KEY)
                       THEN Some(SavedMeta(s)) ELSE None]
    /\ nops = 0
    /\ nposted = 0
    /\ nunloads = 0
    /\ lastOp = [v \in Views |-> Op("init", <<>>, FALSE, <<>>, <<>>, None, FALSE, FALSE)]
    /\ lastInput = [v \in Views |-> None]
    /\ InitAtHome

NextStored ==
    \/ \E value \in CommitValues, broadcast \in BOOLEAN :
           Commit("v1", value, broadcast)
    \/ LoadDone("v1")
    \/ SetDone("v1")
    \/ RemoveDone("v1")
    \/ SaveMetaRead("v1")
    \/ DeleteMetaRead("v1")
    \/ WriteIndexDone("v1")
    \/ Unload("v1")
    \/ Reload("v1")

SpecStored == InitStored /\ [][NextStored]_vars

\* The values writeStoredValue is handed in this specification.
WrittenValues == {Normalized(value) : value \in CommitValues} \ {<<>>}

BlockLines ==
    { Elem("div", <<Text(Hi)>>),
      Elem("div", <<Text(Yo)>>),
      Elem("div", <<Elem("br", <<>>)>>) }

\* Content of 1..MaxBlocks block lines.
BlockContents == UNION {[1..n -> BlockLines] : n \in 1..MaxBlocks}

InitTitle ==
    /\ scope = [v \in Views |-> ""]
    /\ budget = MaxTitleOps
    /\ InitSheet
    /\ InitViews({"v1"}, {})
    /\ InitAtHome

NextTitle ==
    \/ \E value \in BlockContents, broadcast \in BOOLEAN :
           Commit("v1", value, broadcast)
    \/ LoadDone("v1")
    \/ SetDone("v1")
    \/ RemoveDone("v1")
    \/ SaveMetaRead("v1")
    \/ DeleteMetaRead("v1")
    \/ WriteIndexDone("v1")

SpecTitle == InitTitle /\ [][NextTitle]_vars

RECURSIVE FirstNonEmptyLine(_)
\* The first line of the block lines `blocks` that holds text, trimmed; the
\* default title when no line does.
FirstNonEmptyLine(blocks) ==
    IF blocks = <<>> THEN NoteTitle
    ELSE LET line == Trim(StripZeroWidth(TextContent(<<Head(blocks)>>)))
         IN  IF line # <<>> THEN line ELSE FirstNonEmptyLine(Tail(blocks))

\* C26: the metadata entry a non-empty persist hands to saveNoteMetadata is
\* titled with the first non-empty line of the persisted content, or with
\* "Note" when no line holds text.
C26_TitleIsFirstLine ==
    \A i \in 1..Len(tasks["v1"]) :
        LET task == tasks["v1"][i]
        IN  (task.k = "saveMeta" /\ task.last /\ lastOp["v1"].op = "commit")
                => task.meta.title = FirstNonEmptyLine(lastOp["v1"].ret)

\* C27: in a single open view, whenever no timer is pending and no storage
\* call is in flight, the store holds the surface's normalized content under
\* the note's key, and no record exactly when the surface is effectively
\* empty.
C27_RecordMatchesSurface ==
    (Settled /\ alive["v1"]) =>
        LET content == Normalized(element["v1"].html)
        IN  store[storageKey("v1")] =
                IF isEffectivelyEmpty(content) THEN None
                ELSE Some(compressToUTF16(content))

\* persistImmediately(value) in view v returns at `normalized ===
\* lastPersistedValue` without writing.
SkipsWrite(v, value) ==
    /\ ~isEffectivelyEmpty(Normalized(value))
    /\ lastPersistedValue[v] = Some(Normalized(value))

\* The store holds `value` under the note of view v, or the view's write of
\* it is still to complete.
StoredOrInFlight(v, value) ==
    \/ store[storageKey(v)] = Some(compressToUTF16(value))
    \/ \E i \in 1..Len(tasks[v]) :
          /\ tasks[v][i].k = "set"
          /\ tasks[v][i].key = storageKey(v)
          /\ tasks[v][i].val = compressToUTF16(value)

\* C28: whenever a persist skips the write because the value equals the
\* view's last-persisted cache, the store holds that value under the note's
\* key (or the view's own write of it is still in flight), also after a
\* write that failed.
C28_SkipOnlyWhenStored ==
    [][\A value \in CommitValues, broadcast \in BOOLEAN :
          (Commit("v1", value, broadcast) /\ SkipsWrite("v1", value))
              => StoredOrInFlight("v1", Normalized(value))]_vars

\* C29: when the initial read of a note that has a record and a metadata
\* entry fails, the record and the entry are still there afterwards,
\* whatever storage calls complete, as long as the user does nothing.
C29_FailedReadKeepsRecord ==
    (/\ lastOp["v1"].op = "load" /\ lastOp["v1"].flag
     /\ lastOp["v1"].had
     /\ nops = 0)
        => /\ store[storageKey("v1")] = Some(compressToUTF16(SavedMarkup))
           /\ index[slug("v1")] = Some(SavedMeta(slug("v1")))

(***************************************************************************)
(* Two views open on two different notes, each updating the metadata index *)
(* for its own slug: saveNoteMetadata and deleteNoteMetadata read the      *)
(* index, change one entry and write the whole index back, and the reads   *)
(* and writes of the two views interleave.  No view posts to the other.    *)
(***************************************************************************)
InitIndex ==
    /\ scope = [v \in Views |-> IF v = "v1" THEN "" ELSE "work"]
    /\ budget = MaxIndexOps
    /\ InitSheet
    /\ \E saved \in {{}, StorageKeys} : InitViews(Views, saved)
    /\ InitAtHome

NextIndex ==
    \E v \in Views :
        \/ \E value \in CommitValues : Commit(v, value, FALSE)
        \/ LoadDone(v)
        \/ SetDone(v)
        \/ RemoveDone(v)
        \/ SaveMetaRead(v)
        \/ DeleteMetaRead(v)
        \/ WriteIndexDone(v)

SpecIndex == InitIndex /\ [][NextIndex]_vars

\* C30: a write of the metadata index made for the note of one view leaves
\* the entry of every other slug as it is in the store: an update for slug A
\* never removes or reverts the entry of slug B.
C30_IndexKeepsOtherEntries ==
    [][\A v \in Views :
          WriteIndexDone(v) =>
              \A s \in Slugs \ {slug(v)} : index'[s] = index[s]]_vars

\* The storage calls the last handler of view v issued, in order.
IssuedByLast(ts) == SelectSeq(ts, LAMBDA t : t.last)

\* C31: clear leaves the surface holding the single empty block with the
\* empty marker set, the last-known value equal to that markup, the
\* last-persisted value empty and no persist pending; it issues the deletion
\* of the metadata entry and of the record, posts one empty message unless
\* broadcast is off (then none), and leaves the title flushed.  An input
\* event right after it whose surface normalizes to the empty block changes
\* nothing and schedules nothing.
C31_ClearEmptiesEverything ==
    [][/\ \A broadcast \in BOOLEAN :
            Clear("v1", broadcast) =>
                /\ element'["v1"] = Element(EmptyBlock, TRUE)
                /\ lastKnownDomValue'["v1"] = EmptyBlock
                /\ lastPersistedValue'["v1"] = Some(<<>>)
                /\ ~persistTimer'["v1"].some
                /\ IssuedByLast(tasks'["v1"]) =
                       <<DeleteMetaTask(slug("v1")), RemoveTask(storageKey("v1"))>>
                /\ lastOp'["v1"].posted =
                       (IF broadcast THEN << <<>> >> ELSE <<>>)
                /\ ~titleTimer'["v1"] /\ ~idleHandle'["v1"]
                /\ docTitle'["v1"] = TitleOfElement(element'["v1"])
       /\ \A dom \in InputDoms :
            (/\ Input("v1", dom)
             /\ lastOp["v1"].op = "clear"
             /\ normalizeMarkup(dom) = EmptyBlock) =>
                /\ element'["v1"] = element["v1"]
                /\ lastKnownDomValue'["v1"] = lastKnownDomValue["v1"]
                /\ persistTimer'["v1"] = persistTimer["v1"]
                /\ titleTimer'["v1"] = titleTimer["v1"]
                /\ idleHandle'["v1"] = idleHandle["v1"]
                /\ tasks'["v1"] = Earlier(tasks["v1"])
                /\ lastOp'["v1"].posted = <<>>]_vars

\* A clear that posted ran while a persist and a title update scheduled by
\* an input were pending, and emptied the surface.
C31_Witness ==
    /\ lastOp["v1"].op = "clear" /\ lastOp["v1"].flag
    /\ lastOp["v1"].pending.some /\ lastOp["v1"].titled
    /\ lastOp["v1"].posted = << <<>> >>
    /\ element["v1"] = Element(EmptyBlock, TRUE)
    /\ ~persistTimer["v1"].some

\* The surface content `html` has no text other than white space and
\* zero-width spaces, and no embedded non-text element at any depth.
NothingToShow(html) ==
    /\ MeaningfulText(html) = <<>>
    /\ ~QuerySelector(html, NON_TEXT_CONTENT_SELECTOR)

\* C32: after a run of the normalizer the surface carries the empty marker
\* if and only if it has no text and no embedded content, and then its
\* markup is the single empty block; otherwise the marker is absent and,
\* when no direct child was an element with text or an embedded element,
\* the children it had are, in order, the children of one new block.
C32_NormalizePostcondition ==
    [][\A v \in Views :
          NormalizeRun(v) =>
              LET before == element[v]
                  after == element'[v]
              IN  /\ after.dataEmpty <=> NothingToShow(before.html)
                  /\ after.dataEmpty <=> NothingToShow(after.html)
                  /\ after.dataEmpty => after.html = EmptyBlock
                  /\ (~after.dataEmpty /\ ~hasElementChild(before.html)) =>
                         after.html = <<Elem("div", before.html)>>]_vars

\* A run wrapped bare text followed by a line break into one block and
\* removed the marker.
C32_Witness ==
    /\ nops >= 1
    /\ element["v1"] =
           Element(<<Elem("div", <<Text(Hi), Elem("br", <<>>)>>)>>, FALSE)

\* C33: cancel of the debounced persist (called by commit and by clear)
\* leaves no call pending, whether or not one was; a call becomes pending
\* only by a later queue of a changed value, so the discarded call never
\* runs; and a queue after cancel schedules a call with its own value, which
\* is the value the timer then fires with.
C33_CancelDiscardsPending ==
    [][\A v \in Views :
          /\ (\E value \in CommitValues, broadcast \in BOOLEAN :
                  Commit(v, value, broadcast) \/ Clear(v, broadcast))
                => ~persistTimer'[v].some
          /\ (~persistTimer[v].some /\ persistTimer'[v].some)
                => \E dom \in InputDoms :
                       /\ Input(v, dom)
                       /\ persistTimer'[v] = Some(normalizeMarkup(dom))
          /\ \A dom \in InputDoms :
                (/\ Input(v, dom)
                 /\ lastOp[v].op \in {"commit", "clear"}
                 /\ normalizeMarkup(dom) # lastKnownDomValue[v])
                    => persistTimer'[v] = Some(normalizeMarkup(dom))
          /\ PersistTimeout(v)
                => /\ persistTimer[v].some
                   /\ lastOp'[v].arg = persistTimer[v].val
                   /\ ~persistTimer'[v].some]_vars

\* A commit cancelled a pending persist of another value, which was never
\* written.
C33_Witness ==
    \E v \in Views :
        /\ lastOp[v].op = "commit"
        /\ lastOp[v].pending.some
        /\ ~persistTimer[v].some
        /\ lastPersistedValue[v] # lastOp[v].pending
        /\ \A i \in 1..Len(tasks[v]) :
               tasks[v][i].k = "set" =>
                   tasks[v][i].val # compressToUTF16(lastOp[v].pending.val)
        /\ store[storageKey(v)] # Some(compressToUTF16(lastOp[v].pending.val))

(***************************************************************************)
(* One view over an empty store in which the user only types, under an     *)
(* event loop that does not stall: timers fire, idle callbacks run and     *)
(* storage calls complete.                                                 *)
(***************************************************************************)
InitQueue ==
    /\ scope = [v \in Views |-> ""]
    /\ budget = MaxQueueOps
    /\ InitSheet
    /\ InitViews({"v1"}, {})
    /\ InitAtHome

NextQueue ==
    \/ \E dom \in InputDoms : Input("v1", dom)
    \/ PersistTimeout("v1")
    \/ TitleTimeout("v1")
    \/ IdleCallback("v1")
    \/ LoadDone("v1")
    \/ SetDone("v1")
    \/ RemoveDone("v1")
    \/ SaveMetaRead("v1")
    \/ DeleteMetaRead("v1")
    \/ WriteIndexDone("v1")

SpecQueue == InitQueue /\ [][NextQueue]_vars /\ WF_vars(EventLoopStep)

\* No title update of view v is scheduled or waiting for an idle period.
TitleIdle(v) == ~titleTimer[v] /\ ~idleHandle[v]

\* C34: once queue has scheduled a title update, the document title
\* eventually is the first line of the surface with no update left pending;
\* an input handled while the title timer is pending keeps one timer pending
\* and does not update the title itself, and once the update has run the
\* title changes again only by a flush, so inputs inside the window end
\* in one update.
C34_TitleEventuallyUpdated ==
    /\ titleTimer["v1"] ~>
           (TitleIdle("v1") /\ docTitle["v1"] = TitleOfElement(element["v1"]))
    /\ [][/\ \A dom \in InputDoms :
                (Input("v1", dom) /\ titleTimer["v1"]) =>
                    /\ titleTimer'["v1"]
                    /\ idleHandle'["v1"] = idleHandle["v1"]
                    /\ docTitle'["v1"] = docTitle["v1"]
         /\ (docTitle'["v1"] # docTitle["v1"]) =>
                (\/ IdleCallback("v1") /\ ~idleHandle'["v1"]
                 \/ LoadDone("v1"))]_vars

\* A second input was handled while the title timer of the first was
\* pending, and the title has since been updated to the second input's
\* first line.
C34_Witness ==
    /\ lastOp["v1"].op = "input" /\ nops = 2
    /\ lastOp["v1"].titled /\ lastOp["v1"].pending.some
    /\ lastOp["v1"].pending.val # lastOp["v1"].arg
    /\ TitleIdle("v1")
    /\ docTitle["v1"] = TitleOfElement(element["v1"])
    /\ docTitle["v1"] \in {Hi, Yo}

(***************************************************************************)
(* The detached window, call by call: openPiPWindow suspends at            *)
(* `await requestPiPWindow()`, and clicks, key presses, the resolution of  *)
(* a request and the events of the windows interleave.                     *)
(***************************************************************************)
\* Install the placement state p after the window event named op.
InstallWindow(p, op) ==
    /\ Len(placeOps) < MaxPiPEvents
    /\ children' = p.children
    /\ ownerDocument' = p.ownerDocument
    /\ bodyAttached' = p.bodyAttached
    /\ context' = p.context
    /\ placeOps' = Append(placeOps, op)

\* `pipWindow && !pipWindow.closed`
WindowOpen == pipWindow.some /\ windows[pipWindow.val.doc].state # "closed"

\* openPiPWindow(context) is called (pop-out button or keyboard shortcut):
\* it focuses the window it knows to be open, or requests a window and
\* suspends.
CallOpenPiPWindow ==
    /\ IF WindowOpen
       THEN /\ InstallWindow(PlaceState, "focus")
            /\ awaiting' = awaiting
       ELSE /\ InstallWindow(PlaceState, "request")
            /\ awaiting' = awaiting + 1
    /\ UNCHANGED <<pipWindow, windows, syncVars, sheetVars>>

\* A request resolves with the window of document doc: the call resumes,
\* assigns pipWindow, sets the window up now or on its load event, and
\* attaches the lifecycle listeners.
WindowGranted(doc, ready) ==
    /\ awaiting > 0 /\ windows[doc].state = "closed"
    /\ awaiting' = awaiting - 1
    /\ pipWindow' = Some([doc |-> doc, ready |-> ready])
    /\ InstallWindow(IF ready THEN setupPiPWindow(PlaceState, doc)
                     ELSE PlaceState, "granted")
    /\ windows' = [windows EXCEPT ![doc] = attachPiPLifecycle(NewWindow(ready))]
    /\ UNCHANGED <<syncVars, sheetVars>>

\* A request resolves with null (window.open was blocked): the call assigns
\* pipWindow and returns.
RequestBlocked ==
    /\ awaiting > 0
    /\ awaiting' = awaiting - 1
    /\ pipWindow' = None
    /\ InstallWindow(PlaceState, "blocked")
    /\ UNCHANGED <<windows, syncVars, sheetVars>>

\* A request rejects: openPiPWindow rejects; the click handler of the
\* pop-out button then calls restoreNote(context), the keyboard shortcut
\* does nothing.
RequestRejected(byButton) ==
    /\ awaiting > 0
    /\ awaiting' = awaiting - 1
    /\ InstallWindow(IF byButton THEN restoreNote(PlaceState) ELSE PlaceState,
                     IF byButton THEN "rejected" ELSE "unhandled")
    /\ UNCHANGED <<pipWindow, windows, syncVars, sheetVars>>

\* The load event of a detached window: initialise().
WindowLoad(doc) ==
    /\ windows[doc].state = "loading"
    /\ InstallWindow(setupPiPWindow(PlaceState, doc), "load")
    /\ windows' = [windows EXCEPT ![doc].state = "ready"]
    /\ pipWindow' = IF pipWindow.some /\ pipWindow.val.doc = doc
                    THEN Some([pipWindow.val EXCEPT !.ready = TRUE])
                    ELSE pipWindow
    /\ UNCHANGED <<awaiting, syncVars, sheetVars>>

\* An event of a window that is being closed is dispatched: when teardown
\* listens for it, teardown calls onClose (restoreNote(context);
\* pipWindow = null) and removes its listeners.
Dispatch(doc, event) ==
    IF event \in windows[doc].listeners
    THEN /\ InstallWindow(restoreNote(PlaceState), "close")
         /\ pipWindow' = None
         /\ windows' = [windows EXCEPT
                ![doc] = [teardown(@, event) EXCEPT
                            !.state = IF event = "pagehide" THEN "hiding"
                                      ELSE "closed"]]
    ELSE /\ InstallWindow(PlaceState, event)
         /\ pipWindow' = pipWindow
         /\ windows' = [windows EXCEPT
                ![doc].state = IF event = "pagehide" THEN "hiding"
                               ELSE "closed"]

\* A detached window is closed: its pagehide event is dispatched.
WindowPagehide(doc) ==
    /\ windows[doc].state \in {"loading", "ready"}
    /\ Dispatch(doc, "pagehide")
    /\ UNCHANGED <<awaiting, syncVars, sheetVars>>

\* The unload event of a window that is being closed.
WindowUnload(doc) ==
    /\ windows[doc].state = "hiding"
    /\ Dispatch(doc, "unload")
    /\ UNCHANGED <<awaiting, syncVars, sheetVars>>

InitPiP ==
    /\ scope = [v \in Views |-> ""]
    /\ budget = 0
    /\ InitSheet
    /\ InitViews({"v1"}, {})
    /\ \E parent \in {"body", "app"}, hasNext \in BOOLEAN,
          bodies \in [DetachedDocs -> BOOLEAN] :
            InitPlacement(Layout(parent, hasNext), bodies)

NextPiP ==
    \/ CallOpenPiPWindow
    \/ \E doc \in DetachedDocs, ready \in BOOLEAN : WindowGranted(doc, ready)
    \/ RequestBlocked
    \/ \E byButton \in BOOLEAN : RequestRejected(byButton)
    \/ \E doc \in DetachedDocs : WindowLoad(doc)
    \/ \E doc \in DetachedDocs : WindowPagehide(doc)
    \/ \E doc \in DetachedDocs : WindowUnload(doc)

SpecPiP == InitPiP /\ [][NextPiP]_vars

\* The detached windows that are open.
OpenWindows == {d \in DetachedDocs : windows[d].state \in {"loading", "ready"}}

\* C35: at most one detached window is requested or open at a time: the
\* calls of openPiPWindow awaiting a window and the open windows number at
\* most one.
C35_OneWindowAtATime == awaiting + Cardinality(OpenWindows) <= 1

\* The window event handled last.
LastEvent(ops) == IF ops = <<>> THEN "none" ELSE ops[Len(ops)]

C36_Witness ==
    /\ placeOps = <<"request", "granted", "close", "unload", "request", "granted">>
    /\ pipWindow.some
    /\ ParentOf(PlaceState, NoteNode) = pipWindow.val.doc
    /\ IsConnected(PlaceState, PlaceholderNode)

\* C37: restoreNote called by the pop-out button's error handler while the
\* surface is at its home position and no placeholder is shown leaves the
\* children of every container as they are (same position, no second
\* copy), leaves the recorded anchor equal to the surface's next sibling,
\* and a second restoreNote changes nothing further.
C37_RestoreAtHomeIsNoOp ==
    [][(/\ RequestRejected(TRUE)
        /\ AtHome /\ ~IsConnected(PlaceState, PlaceholderNode))
          => /\ children' = children
             /\ ownerDocument' = ownerDocument
             /\ AttachedOnce'
             /\ context'.originalParent = context.originalParent
             /\ context'.anchor = NextSibling(PlaceState, NoteNode)'
             /\ restoreNote(PlaceState)' = PlaceState']_vars

\* Two requests were rejected one after the other, each handled by the
\* button's error handler, on a page whose surface is followed by a footer.
C37_Witness ==
    /\ placeOps = <<"request", "request", "rejected", "rejected">>
    /\ AtHome
    /\ context.anchor = "footer"
    /\ ~IsConnected(PlaceState, PlaceholderNode)

(***************************************************************************)
(* The saved-notes sheet of the page of view v1: calls of renderSavedNotes *)
(* that overlap, each suspended at its storage reads, and deleteNote with  *)
(* storage calls that resolve or reject.  The search field is empty.       *)
(***************************************************************************)
\* Everything but the sheet, the store, the index and the storage calls.
sheetFrame == <<placeVars, scope, alive, viewVars, inbox, budget, nops,
                nposted, nunloads, lastOp, lastInput>>

\* decodeStoredValue of a stored string
decodeStoredValue(rawValue) ==
    LET decompressed == decompressFromUTF16(rawValue)
    IN  IF decompressed.some THEN decompressed.val ELSE rawValue.raw

\* toPlainText: the text of the first child of the parsed markup.
toPlainText(html) ==
    IF html = <<>> THEN <<>> ELSE TextContent(<<html[1]>>)

RECURSIVE FirstPiece(_)
\* plainText.split(/\n+/)[0]
FirstPiece(str) ==
    Call(LAMBDA s :
        IF s = <<>> THEN <<>>
        ELSE IF Head(s) = "\n" THEN <<>>
        ELSE <<Head(s)>> \o FirstPiece(Tail(s)),
        str)

\* The title buildEntries gives a note with no title in the index whose
\* record is storedValueRaw; a slug of the model has no "_" and no "-".
entryTitle(s, storedValueRaw) ==
    LET firstLine == Trim(FirstPiece(toPlainText(decodeStoredValue(storedValueRaw))))
    IN  IF firstLine # <<>> THEN firstLine
        ELSE IF s = "root" THEN <<"Root note">> ELSE <<s>>

\* The slugs in the order collectSlugs sorts them: "root" first.
SlugOrder == <<"root", "work">>

\* The slugs of the records storage.keys() lists.
storedSlugs == {getSlugFromStorageKey(k) : k \in {j \in StorageKeys : store[j].some}}

\* renderSavedNotes after `await buildEntries()`: a render that is no longer
\* the newest returns; the newest one shows the error state when the flag
\* is set, the empty state or the entries otherwise.
renderResult(renderId, entries, flag) ==
    IF renderId # renderSequence THEN listContainer
    ELSE [by |-> renderId,
          shows |-> IF flag THEN "error"
                    ELSE IF entries = {} THEN "empty" ELSE "entries",
          entries |-> IF flag THEN {} ELSE entries]

\* renderSavedNotes up to the await in loadNoteMetadataMap.
RenderSavedNotes ==
    /\ renderSequence < MaxRenders
    /\ renderSequence' = renderSequence + 1
    /\ listContainer' = [by |-> renderSequence + 1, shows |-> "loading",
                         entries |-> {}]
    /\ renders' = [renders EXCEPT ![renderSequence + 1].pc = "readIndex"]
    /\ UNCHANGED <<storageReadFailed, deletion, tasks, store, index, sheetFrame>>

\* readIndex settles (a rejection gives {}), and collectSlugs runs up to
\* `await storage.keys()`.
MetadataLoaded(r, ok) ==
    /\ renders[r].pc = "readIndex"
    /\ renders' = [renders EXCEPT
                     ![r].pc = "keys",
                     ![r].metadataMap =
                         IF ok THEN {s \in Slugs : index[s].some} ELSE {}]
    /\ storageReadFailed' = FALSE
    /\ UNCHANGED <<renderSequence, listContainer, deletion, tasks, store, index,
                   sheetFrame>>

\* storage.keys() settles: collectSlugs returns, buildEntries returns [] when
\* the flag is set, returns the entries when every slug has a title, and
\* otherwise awaits storage.getItem for the slugs without one.
KeysDone(r, ok) ==
    /\ renders[r].pc = "keys"
    /\ LET slugs == renders[r].metadataMap \union (IF ok THEN storedSlugs ELSE {})
           flag == IF ok THEN storageReadFailed ELSE TRUE
       IN  /\ storageReadFailed' = flag
           /\ IF flag \/ slugs \subseteq renders[r].metadataMap
              THEN /\ renders' = [renders EXCEPT ![r].pc = "done",
                                                 ![r].slugs = slugs,
                                                 ![r].failed = ~ok]
                   /\ listContainer' = renderResult(r, slugs, flag)
              ELSE /\ renders' = [renders EXCEPT ![r].pc = "entries",
                                                 ![r].slugs = slugs,
                                                 ![r].failed = ~ok]
                   /\ UNCHANGED listContainer
    /\ UNCHANGED <<renderSequence, deletion, tasks, store, index, sheetFrame>>

\* The storage.getItem calls of buildEntries settle, those for the slugs
\* `resolved` with the record or null: each note found gets its metadata
\* saved; if a call rejected, renderSavedNotes rejects and writes nothing.
EntriesSettled(r, resolved) ==
    /\ renders[r].pc = "entries"
    /\ resolved \subseteq renders[r].slugs \ renders[r].metadataMap
    /\ LET found == SelectSeq(SlugOrder, LAMBDA s :
                        s \in resolved /\ store[<<NOTE_KEY_PREFIX, s>>].some)
           saves == [i \in 1..Len(found) |->
                        [SaveMetaTask([slug |-> found[i],
                                       title |-> entryTitle(found[i],
                                           store[<<NOTE_KEY_PREFIX, found[i]>>].val),
                                       updatedAt |-> now])
                            EXCEPT !.last = FALSE]]
       IN  tasks' = [tasks EXCEPT !["v1"] = @ \o saves]
    /\ renders' = [renders EXCEPT ![r].pc = "done"]
    /\ listContainer' =
           IF resolved = renders[r].slugs \ renders[r].metadataMap
           THEN renderResult(r, renders[r].slugs, storageReadFailed)
           ELSE listContainer
    /\ UNCHANGED <<renderSequence, storageReadFailed, deletion, store, index,
                   sheetFrame>>

\* A call of deleteNote: `removed` tells that storage.removeItem resolved,
\* `unlisted` that the index was read and holds no entry for the slug or was
\* written back without it; `index` is the index deleteNoteMetadata read.
Deleting(s, pc, hadSuccess, removed, unlisted) ==
    Some([slug |-> s, pc |-> pc, hadSuccess |-> hadSuccess,
          removed |-> removed, unlisted |-> unlisted, index |-> index])

\* deleteNote(slug) up to `await storage.removeItem(storageKey)`; for "root"
\* it returns false.
DeleteNote(s) ==
    /\ IF deletion.some THEN deletion.val.pc = "done" ELSE TRUE
    /\ deletion' = IF s = "root"
                   THEN Deleting(s, "done", FALSE, FALSE, FALSE)
                   ELSE Deleting(s, "removeItem", FALSE, FALSE, FALSE)
    /\ UNCHANGED <<renderSequence, storageReadFailed, listContainer, renders,
                   tasks, store, index, sheetFrame>>

\* storage.removeItem settles; deleteNoteMetadata runs up to its readIndex.
DeleteRecordSettled(ok) ==
    /\ deletion.some /\ deletion.val.pc = "removeItem"
    /\ store' = IF ok THEN [store EXCEPT ![<<NOTE_KEY_PREFIX, deletion.val.slug>>] = None]
                ELSE store
    /\ deletion' = [deletion EXCEPT !.val.pc = "readIndex",
                                    !.val.hadSuccess = ok,
                                    !.val.removed = ok]
    /\ UNCHANGED <<renderSequence, storageReadFailed, listContainer, renders,
                   tasks, index, sheetFrame>>

\* readIndex settles inside deleteNoteMetadata (a rejection gives {}): with
\* no entry for the slug deleteNoteMetadata returns and deleteNote sets
\* hadSuccess; otherwise writeIndex is called without the entry.
DeleteIndexRead(ok) ==
    /\ deletion.some /\ deletion.val.pc = "readIndex"
    /\ deletion' =
           IF ok /\ index[deletion.val.slug].some
           THEN [deletion EXCEPT !.val.pc = "writeIndex",
                                 !.val.index =
                                     [index EXCEPT ![deletion.val.slug] = None]]
           ELSE [deletion EXCEPT !.val.pc = "done", !.val.hadSuccess = TRUE,
                                 !.val.unlisted = ok,
                                 !.val.index = index]
    /\ UNCHANGED <<renderSequence, storageReadFailed, listContainer, renders,
                   tasks, store, index, sheetFrame>>

\* storage.setItem of the index settles inside writeIndex (a rejection is
\* logged there): deleteNoteMetadata returns and deleteNote sets hadSuccess.
DeleteIndexWritten(ok) ==
    /\ deletion.some /\ deletion.val.pc = "writeIndex"
    /\ index' = IF ok THEN deletion.val.index ELSE index
    /\ deletion' = [deletion EXCEPT !.val.pc = "done", !.val.hadSuccess = TRUE,
                                    !.val.unlisted = ok]
    /\ UNCHANGED <<renderSequence, storageReadFailed, listContainer, renders,
                   tasks, store, sheetFrame>>

\* The page of the default note, with the records of any notes in the store.
InitSavedNotes ==
    /\ scope = [v \in Views |-> ""]
    /\ budget = 0
    /\ InitSheet
    /\ \E saved \in SUBSET StorageKeys : InitViews({"v1"}, saved)
    /\ InitAtHome

NextSavedNotes ==
    \/ RenderSavedNotes
    \/ \E r \in RenderIds, ok \in BOOLEAN : MetadataLoaded(r, ok)
    \/ \E r \in RenderIds, ok \in BOOLEAN : KeysDone(r, ok)
    \/ \E r \in RenderIds, resolved \in SUBSET Slugs : EntriesSettled(r, resolved)
    \/ \E s \in Slugs : DeleteNote(s)
    \/ \E ok \in BOOLEAN : DeleteRecordSettled(ok)
    \/ \E ok \in BOOLEAN : DeleteIndexRead(ok)
    \/ \E ok \in BOOLEAN : DeleteIndexWritten(ok)
    \/ LoadDone("v1")
    \/ SetDone("v1")
    \/ RemoveDone("v1")
    \/ SaveMetaRead("v1")
    \/ DeleteMetaRead("v1")
    \/ WriteIndexDone("v1")

SpecSavedNotes == InitSavedNotes /\ [][NextSavedNotes]_vars

\* C38: when renders of the saved-notes list overlap, only the most
\* recently started one writes the list, and whether the list shows the
\* error state depends only on the storage read of the render that wrote
\* it: it shows the error state exactly when that render's own
\* storage.keys() failed.
C38_ErrorStateFromOwnRead ==
    /\ listContainer.by \in {0, renderSequence}
    /\ listContainer.shows \in {"error", "empty", "entries"} =>
           (listContainer.shows = "error" <=> renders[listContainer.by].failed)

\* C39: deleteNote("root") returns false, and for any other slug deleteNote
\* returns true only when the record was removed or the metadata entry is
\* gone from the index.
C39_SuccessNeedsARemoval ==
    (deletion.some /\ deletion.val.pc = "done") =>
        /\ deletion.val.slug = "root" => ~deletion.val.hadSuccess
        /\ deletion.val.hadSuccess =>
               deletion.val.removed \/ deletion.val.unlisted

====
